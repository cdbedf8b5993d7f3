---------------------------- MODULE MCTickBuffer ----------------------------
EXTENDS TickBuffer
Tick(t, p, d, u) == [time |-> t, last |-> p, side |-> d, upd |-> u, bid |-> 0, ask |-> 0]
B == "TICK_FROM_BUY"
S == "TICK_FROM_SELL"
MCPattern == {
    <<>>,
    <<Tick(0, 5, B, FALSE), Tick(3, 4, S, TRUE)>>,
    <<Tick(1, 5, S, FALSE), Tick(2, 7, B, TRUE), Tick(3, 7, B, FALSE)>>,
    <<Tick(2, 4, B, FALSE)>>,
    <<Tick(0, 5, "none", FALSE), Tick(1, 5, B, TRUE)>>}
MCLive == {<<Tick(15, 5, S, TRUE)>>,
    <<Tick(16, 5, B, TRUE), Tick(18, 6, S, TRUE)>>,
    <<Tick(13, 5, B, TRUE), Tick(13, 6, S, TRUE)>>}
=============================================================================
