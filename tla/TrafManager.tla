----------------------------- MODULE TrafManager -----------------------------
(****************************************************************************)
(* TrafManager: the bytes that may be sent in a second are given to whoever *)
(* asks first, but for a part that is put aside for the clients of the last *)
(* seconds, the same for each.                                              *)
(****************************************************************************)
EXTENDS Naturals, FiniteSets, FiniteSetsExt, Functions

CONSTANTS MaxShare, \* maxShare_: bytes a second
          Tenth,    \* the part of it that is reserved: a 10th
          Keep      \* seconds after which a client that is idle is forgotten: 3

ASSUME ShareAssumption == MaxShare \in Nat /\ Tenth \in Nat \ {0} /\ Keep \in Nat

\* share_ and clients_, before the first OnTimer.
NoTraffic == [share |-> 0, clients |-> <<>>]

\* The calls of OnTimer within a second fill up again.
OnSecondFault(t, second) ==
  IF second THEN [t EXCEPT !.clients = Restrict(@, {h \in DOMAIN @ : @[h].idle < Keep})]
            ELSE [t EXCEPT !.share = MaxShare]

\* OnTimer, with Sweep: it may be called many times within a second.
OnSecond(t, second) ==
  LET kept     == {h \in DOMAIN t.clients : t.clients[h].idle < Keep}
      reserved == IF kept = {} THEN 0 ELSE MaxShare \div Tenth
  IN IF second
     THEN [share   |-> MaxShare - reserved,
           clients |-> [h \in kept |-> [amount |-> reserved \div Cardinality(kept),
                                        idle   |-> t.clients[h].idle + 1]]]
     ELSE t

\* Use: what a client gets of the bytes that it wants, and what is left then.
Use(t, h, want) ==
  LET common == Min({t.share, want})
      amount == common + IF h \in DOMAIN t.clients THEN t.clients[h].amount ELSE 0
      given  == Min({want, amount})
  IN [given |-> given,
      left  |-> [share   |-> t.share - common,
                 clients |-> [i \in DOMAIN t.clients \cup {h} |->
                                IF i = h THEN [amount |-> amount - given, idle |-> 0]
                                ELSE t.clients[i]]]]
=============================================================================
