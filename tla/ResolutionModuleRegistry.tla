---------------------- MODULE ResolutionModuleRegistry ----------------------
(***************************************************************************)
(* contracts/ResolutionModuleRegistry.sol, contracts/modules/*.sol and the *)
(* one parameter of contracts/ProtocolParameters.sol the claim registry    *)
(* reads.  One scientific domain is modelled: a claim names its module or  *)
(* takes the domain's.                                                     *)
(*                                                                         *)
(* A definition whose name begins with Bug is one the model does not use:  *)
(* its neighbour with a defect the properties must notice.                 *)
(***************************************************************************)
EXTENDS ProtocolTypes

CONSTANTS
  Modules,     \* addresses of resolution modules
  ModuleKind,  \* [Modules -> {"Computational", "Benchmark", "WetLab"}]
  NoModule,    \* address(0)
  Bonds        \* the author bonds and bond floors of the model

ASSUME ModuleAssumption ==
  /\ NoModule \notin Modules
  /\ ModuleKind \in [Modules -> {"Computational", "Benchmark", "WetLab"}]
  /\ 0 \in Bonds /\ Bonds \subseteq Nat

VARIABLES
  existing,      \* modules with registration.exists
  enabled,       \* modules with registration.enabled
  domainModule,  \* _domainModules of the domain
  minAuthorBond  \* the osp.claim.minAuthorBond parameter

moduleVars == <<existing, enabled, domainModule, minAuthorBond>>

\* The resolution statuses the validateResolution of a module accepts.  Its
\* checks of confidence, evidence and resolver type only refuse a call: a
\* step of the model is a call that passed them.
AcceptedStatuses(kind) ==
  CASE kind = "Benchmark" -> {"Supported", "Qualified", "Inconclusive", "Refuted"}
    [] kind = "Computational" ->
         {"Supported", "Qualified", "Inconclusive", "Refuted", "FraudSignal"}
    [] OTHER -> ResolutionStatus \ {"Pending"}

ModuleInit ==
  /\ existing = {}
  /\ enabled = {}
  /\ domainModule = NoModule
  /\ minAuthorBond = 0

\* Registering again re-enables a disabled module.
RegisterModule(m) ==
  /\ existing' = existing \cup {m}
  /\ enabled' = enabled \cup {m}
  /\ UNCHANGED <<domainModule, minAuthorBond>>

BugSetModuleEnabled(m, flag) ==  \* of an unregistered module
  /\ enabled' = IF flag THEN enabled \cup {m} ELSE enabled \ {m}
  /\ UNCHANGED <<existing, domainModule, minAuthorBond>>

SetModuleEnabled(m, flag) ==
  /\ m \in existing
  /\ enabled' = IF flag THEN enabled \cup {m} ELSE enabled \ {m}
  /\ UNCHANGED <<existing, domainModule, minAuthorBond>>

SetDomainModule(m) ==
  /\ m \in enabled
  /\ domainModule' = m
  /\ UNCHANGED <<existing, enabled, minAuthorBond>>

SetMinAuthorBond(b) ==
  /\ minAuthorBond' = b
  /\ UNCHANGED <<existing, enabled, domainModule>>

ModuleStep ==
  \/ \E m \in Modules :
       \/ RegisterModule(m)
       \/ \E flag \in BOOLEAN : SetModuleEnabled(m, flag)
       \/ SetDomainModule(m)
  \/ \E b \in Bonds : SetMinAuthorBond(b)
=============================================================================
