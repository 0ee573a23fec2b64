---------------------------- MODULE MCAddressBooks ----------------------------
(* Two accounts, one collection, one device and one tag.                    *)
EXTENDS AddressBooks, TLC

CONSTANTS owner, other, c1, d1, r1, r2

Handlers == Permutations({r1, r2})

\* An empty one, and one with a collection, a row in it, and a rule to write.
Databases(c, d) ==
  {[coll |-> [x \in {c} |-> Unused], rules |-> {}, rows |-> {}],
   [coll |-> [x \in {c} |-> owner],
    rules |-> {[id |-> 1, owner |-> owner, coll |-> c, to |-> other, level |-> 2]},
    rows |-> {[id |-> 1, user |-> owner, coll |-> c, key |-> d, inv |-> 0,
               source |-> "client"]}]}

Start == Databases(c1, d1)

Blanks == {2}
=============================================================================
