---------------------------- MODULE MCDnsChange -----------------------------
\* The instance of DnsChange that TLC checks: a content without the report
\* mailbox, and one with it.
EXTENDS DnsChange, TLC

MCTxtValues == {"plain", "plain+"}
MCEnrol == [v \in MCTxtValues |-> "plain+"]
MCSymmetry == Permutations(Requests) \cup Permutations(Resolvers)
=============================================================================
