----------------------------- MODULE MCLibcflat -----------------------------
\* Two programs and one trusted application.
EXTENDS Libcflat

=============================================================================
