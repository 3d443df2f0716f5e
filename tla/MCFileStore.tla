---------------------------- MODULE MCFileStore ----------------------------
(* Three calls on one process. *)
EXTENDS FileStore, TLC

CONSTANTS c1, n1, n2, n3, a1, a2, a3

Blank == [class |-> "agent", cluster |-> NoCluster, created |-> 0, expires |-> 0,
          revoked |-> FALSE, lastUsed |-> 0, reusable |-> FALSE, max |-> 0,
          redemptions |-> 0, used |-> FALSE, serial |-> NoSerial]
Grant == [Blank EXCEPT !.class = "enrollment", !.cluster = c1]

Burn(kid, n)   == [op |-> "BurnEnrollment", kid |-> kid, serial |-> n]
Revoked(kid)   == [op |-> "RevokeKey", kid |-> kid]
Delete(kid)    == [op |-> "DeleteKey", kid |-> kid]
Put(kid)       == [op |-> "PutKey", kid |-> kid, key |-> Grant]
Mint(kid)      == [op |-> "PutKeyIfNoUsable", kid |-> kid, key |-> [Blank EXCEPT !.class = "admin"]]

GrantDoc == [epoch |-> 3, certs |-> [s \in {} |-> 0],
             keys |-> (1 :> Grant) @@ (2 :> [Grant EXCEPT !.reusable = TRUE, !.max = 1])]

Files == {Absent, Corrupt, Holding(GrantDoc)}
ThreeOps ==
  (a1 :> {Burn(1, n1), Burn(2, n1), Put(4), Mint(3)})
    @@ (a2 :> {Burn(1, n2), Revoked(1), Mint(3), [op |-> "Read"]})
    @@ (a3 :> {Burn(1, n3), Burn(2, n3), Revoked(1), Revoked(3), Revoked(4), Delete(1)})

=============================================================================
