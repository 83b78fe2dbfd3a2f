-------------------------- MODULE MCAdministration --------------------------
EXTENDS Administration
Budget(g, s, f) == [guesses |-> g, setups |-> s, faults |-> f]
MCBudgets == {Budget(5, 0, 1), Budget(1, 1, 0), Budget(0, 1, 1), Budget(0, 2, 0)}
=============================================================================
