---------------------------- MODULE MCKubernetes ----------------------------
(***************************************************************************)
(* Instances of Kubernetes for TLC.                                        *)
(***************************************************************************)
EXTENDS Kubernetes, TLC

CONSTANTS w1, w2

Symmetry == Permutations({w1, w2})

\* A private app that is no OpenClaw app and says nothing else.
Plain == ZeroConfig

\* A public OpenClaw app: inline secrets, one of them blank and one replaced
\* by a literal, an instruction file and a fallback provider.
Agent ==
  [ZeroConfig EXCEPT
     !.Public = TRUE, !.Env = {"MODE"},
     !.OpenClaw = <<[OpenClawConfig EXCEPT
        !.GatewayToken = "token", !.AgentsMarkdown = "text",
        !.ProviderAPIKeys = [k \in {"A_KEY", "B_KEY", "C_KEY"} |-> k # "B_KEY"],
        !.ExtraEnv = {"C_KEY"}]>>,
     !.Reliability.FallbackProviders =
        <<[Priority |-> 0, TimeoutSeconds |-> 0], [Priority |-> 1, TimeoutSeconds |-> 5]>>]

\* The same app without inline texts or secrets.
Bare == [ZeroConfig EXCEPT !.Image = "openclaw", !.Public = TRUE, !.Port = 8080]

\* The same app, private, with a secret that the tenant manages.
Shared ==
  [ZeroConfig EXCEPT
     !.OpenClaw = <<[OpenClawConfig EXCEPT
        !.ExistingSecretName = "own", !.SettingsJSON = "text",
        !.ProviderAPIKeys = [k \in {"B_KEY"} |-> FALSE]]>>,
     !.Reliability.HealthCheckPath = "/health"]

Configs == {Plain, Agent, Bare, Shared}
=============================================================================
