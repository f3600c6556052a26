-------------------------------- MODULE MC_Qsbr --------------------------------
EXTENDS Qsbr

CONSTANTS w1, w2, w3, s1, s2, s3
====
