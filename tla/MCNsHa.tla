-------------------------------- MODULE MCNsHa --------------------------------
EXTENDS NsHa, TLC
CONSTANTS ns1, ns2
MCNS == {ns1, ns2}
\* the two nameservers run the same code and start symmetric (either may
\* hold the VIP), so safety runs may identify states that differ by a swap
MCSymmetry == Permutations(MCNS)

\* at most MCFaults faults (VIP flaps, lost messages, switch notices) in
\* one behaviour, each within its own bound
MCFaults == 2
MCFaultBudget == vipMoves + losses + notifies <= MCFaults
==============================================================================
