------------------------------- MODULE MCNotifier -------------------------------
EXTENDS Notifier, TLC
CONSTANTS n1, n2, n3
Permuted == Permutations(Notifications)
===============================================================================
