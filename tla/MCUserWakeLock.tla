--------------------------- MODULE MCUserWakeLock ---------------------------
\* A name, two names it is a prefix of, one of them a prefix of the other, and
\* names that sort between and after them.
EXTENDS UserWakeLock

MCNames == {<<1>>, <<1, 1>>, <<1, 1, 2>>, <<1, 2>>, <<2>>}
=============================================================================
