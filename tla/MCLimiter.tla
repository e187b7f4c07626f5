------------------------------ MODULE MCLimiter ------------------------------
EXTENDS RateLimiter
=============================================================================
