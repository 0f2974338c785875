--------------------------- MODULE MCCompanyAgents ---------------------------
EXTENDS CompanyAgents, TLC

\* Handlers differ in nothing but their names.
HandlerSymmetry == Permutations(Handlers)
=============================================================================
