-------------------------------- MODULE MCApi --------------------------------
(* Requests beside each other.  Ann is registered, with an app, a          *)
(* deployment and a key; bob is not; "Ann" is ann's address in capitals.   *)
EXTENDS Api

CONSTANTS r1, r2, r3, t0, a0, d0, k0

Symmetry == Permutations(Requests)

LowerCase == [e \in {"ann", "Ann", "bob", "root"} |-> IF e = "Ann" THEN "ann" ELSE e]

DB ==
  [users |-> [u \in {"ann"} |-> [tenant |-> t0]],
   tenants |-> [t \in {t0} |-> [slug |-> "ann"]],
   members |-> {<<t0, "ann">>},
   keys |-> [k \in {k0} |-> [tenant |-> t0, user |-> "ann", revoked |-> FALSE]],
   apps |-> [a \in {a0} |-> [tenant |-> t0, slug |-> "s0", user |-> "ann",
                             name |-> None, config |-> None, current |-> None]],
   deployments |-> [d \in {d0} |-> [tenant |-> t0, app |-> a0, version |-> 1, config |-> None]],
   counter |-> [a \in {a0} |-> 1],
   audit |-> {}]

By(email) == [op |-> "read", email |-> email, key |-> None, admin |-> FALSE,
              target |-> None, app |-> None, slug |-> ""]

WithKey(op) == [By(None) EXCEPT !.op = op, !.key = k0, !.app = a0]

Admin(op, target) ==
  [By("ann") EXCEPT !.op = op, !.admin = TRUE, !.target = target, !.slug = "s0"]

Asks ==
  {By(""),
   [By(None) EXCEPT !.op = "sync", !.app = a0, !.target = d0],
   [By("Ann") EXCEPT !.app = d0],
   [By("bob") EXCEPT !.op = "createApp", !.slug = "s0"],
   [By("bob") EXCEPT !.op = "createDeployment", !.app = a0],
   [By("bob") EXCEPT !.op = "deleteAPIKey", !.app = k0],
   [By("ann") EXCEPT !.op = "deleteAPIKey", !.app = k0],
   [By("ann") EXCEPT !.op = "createAPIKey", !.slug = "k"],
   [WithKey("updateApp") EXCEPT !.slug = "name"],
   [WithKey("updateApp") EXCEPT !.slug = "config"],
   WithKey("read"), WithKey("createApp"), WithKey("createAdminUser"),
   WithKey("createDeployment"), WithKey("planDeployment"),
   Admin("adminRead", None), Admin("createAdminUser", "bob"),
   Admin("adminDeployOpenClaw", "bob"), Admin("adminDeployOpenClaw", "ann")}
=============================================================================
