----------------------------- MODULE MCMemLayout -----------------------------
EXTENDS MemLayout

MiB == 1048576

\* Every whole number of MiB from the smallest machine that leaves a free
\* page (3 MiB) up to the 512 MiB memory.c 14-16 says is supported.
MCMemSizes == {m * MiB : m \in 3 .. 512}
=============================================================================
