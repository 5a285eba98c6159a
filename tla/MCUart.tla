------------------------------- MODULE MCUart -------------------------------
EXTENDS Uart

\* Repeated, distinct and zero bytes.
MCInput == <<1, 1, 2, 0, 2>>
=============================================================================
