---------------------------- MODULE MCDispatcher ----------------------------
(* Two users, two transactions in flight, the template and one other       *)
(* adapter, one version, two mints, so that an entry, a request and a      *)
(* position may each name another.  Amounts go up to two, so a second      *)
(* deposit may overflow and a second withdrawal may underflow half way     *)
(* through a transaction.                                                  *)
EXTENDS Dispatcher, TLC

CONSTANTS governor, other, m1, m2, u1, u2, t1, t2

MCPubkeys == {governor, DefaultPubkey}
MCPrograms == {Template, other}
MCMints == {m1, m2}
MCVersions == {1}
MCTexts == {[blank |-> FALSE, bytes |-> 8]}
MCUsers == {u1, u2}
MCTxs == {t1, t2}

Symmetric == Permutations(MCUsers) \cup Permutations(MCTxs) \cup Permutations(MCMints)

(* The bound on accounts: two positions, of one user or of both, under one *)
(* configuration or under one of each mint.                                *)
TwoPositions == Cardinality(DOMAIN user_position) <= 2

(* The last registry event and its replay are history: nothing reads them. *)
View == <<config, entries, templateVars, tx, announced>>
=============================================================================
