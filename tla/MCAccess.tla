------------------------------- MODULE MCAccess -------------------------------
(* Two accounts, clients, servers and subjects, one group, two usernames and *)
(* three releases.                                                           *)
EXTENDS Access, TLC

CONSTANTS root, mia, c1, c2, s1, s2, sub1, sub2, ada, bob, g1

MCAccounts == {root, mia}
MCClients == {c1, c2}
MCServers == {s1, s2}
MCGroups == {g1}
MCSubjects == {sub1, sub2}
MCNames == {ada, bob}
MCProviderName == [s \in MCSubjects |-> IF s = sub1 THEN ada ELSE bob]
MCSymmetry == Permutations(MCClients)
=============================================================================
