---------------------------- MODULE MCDnsPosture ----------------------------
\* The instance of DnsPosture that TLC checks.
EXTENDS DnsPosture

MCDomains == 1..2
=============================================================================
