---------------------------- MODULE MCTestRunner ----------------------------
EXTENDS TestRunner, TLC

CONSTANTS a, b

SameCases == Permutations(Case)
=============================================================================
