----------------------------- MODULE MCServices -----------------------------
EXTENDS Services
CONSTANTS s1, s2, s3, d1, u, p, t1, t2, w1, w2, a1, a2, a3, c1, c2, m1, m2, l1, l2, g1
=============================================================================
