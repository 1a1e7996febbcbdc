------------------------------ MODULE MCXplIo ------------------------------
EXTENDS XplIo, TLC
CONSTANTS h1, h2

\* Two handlers, of which one is called twice as often.
Intervals == h1 :> 1 @@ h2 :> 2

\* For ever, less than a second, a second, two and a half seconds.
Limits == {-1, 1, 2, 5}
=============================================================================
