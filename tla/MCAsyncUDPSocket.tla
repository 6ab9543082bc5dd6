--------------------------- MODULE MCAsyncUDPSocket ---------------------------
(* Model-checking instance of AsyncUDPSocket: two destinations, so that  *)
(* the for loop passes an empty list and sends to a second key in one    *)
(* pass; four send_to calls, so that a handler's send_to lands on a key *)
(* the loop already passed and the while loop goes round again.          *)
EXTENDS AsyncUDPSocket

MCNAddrs == 2
MCMaxPackets == 4
=============================================================================
