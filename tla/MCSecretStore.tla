--------------------------- MODULE MCSecretStore ---------------------------
(* Three calls on two replicas. *)
EXTENDS SecretStore, TLC

CONSTANTS c1, n1, n2, n3, a1, a2, b1, h1, h2

Blank == [class |-> "agent", cluster |-> NoCluster, created |-> 0, expires |-> 0,
          revoked |-> FALSE, lastUsed |-> 0, reusable |-> FALSE, max |-> 0,
          redemptions |-> 0, used |-> FALSE, serial |-> NoSerial]
Grant == [Blank EXCEPT !.class = "enrollment", !.cluster = c1]

On == (a1 :> h1) @@ (a2 :> h1) @@ (b1 :> h2)

Burn(kid, n)   == [op |-> "BurnEnrollment", kid |-> kid, serial |-> n]
Revoked(kid)   == [op |-> "RevokeKey", kid |-> kid]
RevokedCert(n) == [op |-> "RevokeCert", serial |-> n, notAfter |-> 0]
Read           == [op |-> "Read"]

(* A single-use grant and a grant that may be redeemed once more. *)
GrantDoc == [epoch |-> 3, certs |-> [s \in {} |-> 0],
             keys |-> (1 :> Grant)
                        @@ (2 :> [Grant EXCEPT !.reusable = TRUE, !.max = 1])]
GrantServers == {[rv |-> 7, doc |-> GrantDoc]}
GrantOps ==
  (a1 :> {Burn(1, n1), Burn(2, n1)})
    @@ (a2 :> {Burn(1, n2), RevokedCert(n2), Read})
    @@ (b1 :> {Burn(1, n3), Burn(2, n3), Revoked(1)})

(* First start: no Secret yet, every replica mints the bootstrap admin key. *)
Mint == [op |-> "PutKeyIfNoUsable", kid |-> 4, key |-> [Blank EXCEPT !.class = "admin"]]
FirstServers == {NoSecret}
FirstOps == (a1 :> {Mint}) @@ (a2 :> {Read, Revoked(4)}) @@ (b1 :> {Mint})

=============================================================================
