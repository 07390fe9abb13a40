--------------------------- MODULE MCRateLimiter ---------------------------
\* Two callers and two permits; a window of seven ticks cut into three
\* sub-windows of two: the division leaves a remainder, so that index 3, which no
\* clean-up reaches, is in use; windows are over at offsets 1 and 0 of the next.
EXTENDS RateLimiter
=============================================================================
