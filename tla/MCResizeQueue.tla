--------------------------- MODULE MCResizeQueue ---------------------------
\* ResizeQueue, and with it SizeOwner, on a small instance.
EXTENDS ResizeQueue
=============================================================================
