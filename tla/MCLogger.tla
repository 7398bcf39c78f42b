------------------------------ MODULE MCLogger ------------------------------
\* The writers of a log are interchangeable, and so are its readers.
EXTENDS Logger, TLC

UserSymmetry == Permutations(Writers) \cup Permutations(Readers)
=============================================================================
