------------------------------ MODULE AppConfig ------------------------------
(***************************************************************************)
(* The configuration of an app (internal/domain/types.go) and what         *)
(* CreateApp and UpdateApp make of the one a request carries               *)
(* (internal/services/app_service.go): the defaults of normalizeConfig.    *)
(*                                                                         *)
(* A Go zero value is 0, "", FALSE or the empty map, as in the source; a   *)
(* nil pointer is the empty sequence and a pointer the sequence of what it *)
(* points to.  Four resource strings (CPU and memory, request and limit)   *)
(* are defaulted alike and are one field here.  Names, hosts and texts are *)
(* only told apart by being blank or not; an image by naming openclaw.     *)
(***************************************************************************)
EXTENDS Integers, Sequences

DefaultPort == 3000

GatewayDefaultPort == 18789

\* The zero value of OpenClawConfig, and of the policy.  ProviderAPIKeys maps
\* a variable's name to whether its value is more than white space.
OpenClawConfig ==
    [Enabled |-> FALSE, GatewayBindAddress |-> "", GatewayPort |-> 0,
     GatewayToken |-> "", WorkspaceStorage |-> "", ProviderAPIKeys |-> <<>>,
     AgentsMarkdown |-> "", SettingsJSON |-> "", ExtraEnv |-> {},
     ExistingSecretName |-> ""]

ReliabilityPolicy ==
    [AutoRepair |-> FALSE, MaxRepairAttempts |-> 0, HealthCheckPath |-> "",
     HealthCheckTimeoutSeconds |-> 0, FallbackProviders |-> <<>>]

ZeroConfig ==
    [Image |-> "", Port |-> 0, Env |-> {}, Replicas |-> 0, Resources |-> "",
     Public |-> FALSE, Domain |-> "", OpenClaw |-> <<>>,
     Reliability |-> ReliabilityPolicy]

OrElse(value, zero, default) == IF value = zero THEN default ELSE value

AtLeastOne(value, default) == IF value <= 0 THEN default ELSE value

normalizeFallback(fallback, i) ==
    [fallback EXCEPT !.Priority = AtLeastOne(@, i),
                     !.TimeoutSeconds = AtLeastOne(@, 20)]

\* Repair is switched on for a policy that says nothing at all.
SaysNothing(policy) ==
    /\ ~policy.AutoRepair
    /\ policy.MaxRepairAttempts = 0
    /\ policy.HealthCheckPath = ""
    /\ policy.FallbackProviders = <<>>

normalizeReliability(policy) ==
    [policy EXCEPT
        !.AutoRepair = @ \/ SaysNothing(policy),
        !.MaxRepairAttempts = AtLeastOne(@, 3),
        !.HealthCheckTimeoutSeconds = AtLeastOne(@, 3),
        !.FallbackProviders =
            [i \in DOMAIN @ |-> normalizeFallback(@[i], i)]]

normalizeOpenClaw(openclaw) ==
    [openclaw EXCEPT
        !.Enabled = TRUE,
        !.GatewayPort = OrElse(@, 0, GatewayDefaultPort),
        !.GatewayBindAddress = OrElse(@, "", "0.0.0.0"),
        !.WorkspaceStorage = OrElse(@, "", "10Gi")]

\* Mutant: the default image is for every app without one.
normalizeConfigImagesAll(cfg) ==
    LET isOpenClaw == cfg.OpenClaw # <<>> \/ cfg.Image = "openclaw"
        openclaw == IF cfg.OpenClaw = <<>> THEN OpenClawConfig ELSE cfg.OpenClaw[1]
    IN [cfg EXCEPT
           !.OpenClaw = IF isOpenClaw THEN <<normalizeOpenClaw(openclaw)>> ELSE @,
           !.Image = OrElse(@, "", "openclaw"),
           !.Port = OrElse(@, 0, DefaultPort),
           !.Replicas = OrElse(@, 0, 1),
           !.Resources = OrElse(@, "", "default"),
           !.Reliability = normalizeReliability(@)]

normalizeConfig(cfg) ==
    LET isOpenClaw == cfg.OpenClaw # <<>> \/ cfg.Image = "openclaw"
        openclaw == IF cfg.OpenClaw = <<>> THEN OpenClawConfig ELSE cfg.OpenClaw[1]
    IN [cfg EXCEPT
           !.OpenClaw = IF isOpenClaw THEN <<normalizeOpenClaw(openclaw)>> ELSE @,
           !.Image = IF isOpenClaw THEN OrElse(@, "", "openclaw") ELSE @,
           !.Port = OrElse(@, 0, IF isOpenClaw THEN GatewayDefaultPort
                                               ELSE DefaultPort),
           !.Replicas = OrElse(@, 0, 1),
           !.Resources = OrElse(@, "", "default"),
           !.Reliability = normalizeReliability(@)]
=============================================================================
