-------------------------- MODULE MCBackgroundJobs --------------------------
EXTENDS BackgroundJobs
CONSTANTS c1, c2, s1, s2, d1, d2
MCBucketLen == <<2, 4>>
MCWindow == <<3, 5>>
=============================================================================
