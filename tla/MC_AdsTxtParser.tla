--------------------------- MODULE MC_AdsTxtParser ---------------------------
EXTENDS AdsTxtParser, TLC

CONSTANTS n1, n2

\* n1 passes isValidDomain, n2 (say "invalid-domain-") does not.
MCNames == {n1, n2}
MCValidNames == {n1}
=============================================================================
