--------------------------- MODULE DopplerSecrets ---------------------------
(***************************************************************************)
(* .github/actions/doppler-secrets/action.yml: one use of the action, from *)
(* the decision whether this job may have secrets to the moment they are   *)
(* written for later steps.  The log is public, so everything that could   *)
(* end up in it has to be masked by then.                                  *)
(*                                                                         *)
(* A step of the action, or one of the commands in it, may fail; then the  *)
(* action ends there.  A secret's value is what the checks tell apart.     *)
(***************************************************************************)
EXTENDS Naturals, FiniteSets

CONSTANTS
  Name,      \* secret names
  Label,     \* Doppler's own: DOPPLER_PROJECT, DOPPLER_CONFIG, DOPPLER_ENVIRONMENT
  Uses       \* the pairs of a job and a Doppler config considered

Event == {"push", "workflow_dispatch", "schedule", "pull_request", "release"}
Ref == {"default", "other", "version", "tag"}   \* a version tag is vN.N.N
(* history is what git says of the tagged commit: in the default branch's  *)
(* history, not in it, or no clean answer.                                 *)
Job == [event : Event, ref : Ref, fork : BOOLEAN, history : {"in", "out", "unknown"},
        gate : {"on", "off", "typo"}, identity : BOOLEAN, token : BOOLEAN,
        project : BOOLEAN, required : BOOLEAN,
        export : {"env", "outputs", "typo"}, spelt : {"", "blank", "bad", "names"},
        want : SUBSET Name]

Value == {"long", "short", "empty", "odd"}   \* odd: a NUL or U+FFFD is in it
Config == UNION {[S -> [value : Value, open : BOOLEAN]] : S \in SUBSET Name}

ASSUME DopplerAssumption ==
  /\ Label \subseteq Name /\ Name # {}
  /\ Uses \subseteq Job \X Config
  /\ \A u \in Uses : u[1].spelt = "names" <=> u[1].want # {}
  /\ \A u \in Uses : u[1].fork => u[1].event = "pull_request"

(* What may show up in a log: the credentials, and of each secret its      *)
(* whole value, its lines and its JSON form; and the JSON object of all.   *)
Credential == {"request", "jwt", "doppler", "basic"}
Form == {"whole", "lines", "json"}

VARIABLES
  job, config,   \* how the action is used, and what Doppler holds
  pc,            \* the step it is at
  mode,          \* which way in, "none" before the decision and without one
  untrustedTag,  \* the output `untrusted-tag`
  masked,        \* what the runner masks
  sent,          \* credentials that were given to a call
  env, outputs   \* secrets in GITHUB_ENV; secrets in the output `secrets`

vars == <<job, config, pc, mode, untrustedTag, masked, sent, env, outputs>>
given == <<job, config>>
written == <<env, outputs>>

Init ==
  /\ \E u \in Uses : job = u[1] /\ config = u[2]
  /\ pc = "decide" /\ mode = "none" /\ untrustedTag = "false"
  /\ masked = {} /\ sent = {} /\ env = {} /\ outputs = {}

-----------------------------------------------------------------------------
(* Decide how to authenticate.                                             *)
IsTag(j) == j.ref \in {"version", "tag"}

(* A version tag's history is asked for only while the gate is on; without *)
(* the gate nothing depends on trust.                                      *)
OnTrustedRef(j) == j.ref = "default" \/ (j.ref = "version" /\ j.history # "out")

Trusted_AnyEvent(j) == j.event = "schedule" \/ (j.event # "pull_request" /\ OnTrustedRef(j))
Trusted(j) == \/ j.event = "schedule"
              \/ j.event \in {"push", "workflow_dispatch"} /\ OnTrustedRef(j)

Refused(j) == j.gate = "on" /\ ~Trusted(j)

Skipped(j) == j.fork \/ Refused(j)

UntrustedTag_Unset(j) == IF ~j.fork /\ Refused(j) /\ IsTag(j) THEN "true" ELSE ""
UntrustedTag(j) == IF ~j.fork /\ Refused(j) /\ IsTag(j) THEN "true" ELSE "false"

Mode(j) == CASE Skipped(j) -> "none"
             [] ~Skipped(j) /\ j.identity -> "oidc"
             [] ~Skipped(j) /\ ~j.identity /\ j.token -> "token"
             [] OTHER -> "none"

MisConfigured(j) == \/ j.gate = "typo"
                    \/ Mode(j) # "none" /\ ~j.project
                    \/ Mode(j) = "none" /\ ~Skipped(j) /\ j.required

Decide ==
  /\ pc = "decide"
  /\ \/ MisConfigured(job) /\ pc' = "failed" /\ UNCHANGED <<mode, untrustedTag>>
     \/ /\ ~MisConfigured(job) /\ pc' = "validate"
        /\ mode' = Mode(job)
        /\ untrustedTag' = UntrustedTag(job)
  /\ UNCHANGED <<given, masked, sent, written>>

(* Check the export and names inputs, on every ref.                        *)
WholeConfig(j) == j.export = "env" /\ j.want = {}
Path(j) == CASE mode = "none" -> "done"
             [] mode # "none" /\ WholeConfig(j) -> "all"
             [] mode = "oidc" /\ ~WholeConfig(j) -> "request"
             [] mode = "token" /\ ~WholeConfig(j) -> "basic"

Acceptable_BlankIsNone(j) == /\ j.export \in {"env", "outputs"}
                             /\ j.spelt # "bad"
                             /\ j.export = "outputs" => j.spelt = "names"
Acceptable(j) == /\ j.export \in {"env", "outputs"}
                 /\ j.spelt \notin {"blank", "bad"}
                 /\ j.export = "outputs" => j.spelt = "names"

Validate ==
  /\ pc = "validate"
  /\ pc' = IF Acceptable(job) THEN Path(job) ELSE "failed"
  /\ UNCHANGED <<given, mode, untrustedTag, masked, sent, written>>

-----------------------------------------------------------------------------
(* The pinned action: every secret into GITHUB_ENV, masked unless Doppler  *)
(* says it need not be.                                                    *)
Hidden == {n \in DOMAIN config \ Label : ~config[n].open}

FetchAll ==
  /\ pc = "all" /\ pc' = "done"
  /\ masked' = masked \cup (Hidden \X Form)
  /\ env' = DOMAIN config
  /\ UNCHANGED <<given, mode, untrustedTag, sent, outputs>>

(* A credential is masked, then used: the job's request token for a JWT,   *)
(* that for Doppler's token, which is what the config is read with.        *)
Mask(c) == {c} \X {"whole"}
RequestJwt ==
  /\ pc = "request" /\ pc' = "exchange"
  /\ masked' = masked \cup Mask("request")
  /\ sent' = sent \cup {"request"}
  /\ UNCHANGED <<given, mode, untrustedTag, written>>

Exchange ==
  /\ pc = "exchange" /\ pc' = "basic"
  /\ masked' = masked \cup Mask("jwt")
  /\ sent' = sent \cup {"jwt"}
  /\ UNCHANGED <<given, mode, untrustedTag, written>>

(* The call sends the token as basic auth; that form is masked as well.    *)
BeforeReading == Mask("doppler") \cup Mask("basic")

ReadConfig ==
  /\ pc = "basic" /\ pc' = "select"
  /\ masked' = masked \cup BeforeReading
  /\ sent' = sent \cup {"basic"}
  /\ UNCHANGED <<given, mode, untrustedTag, written>>

-----------------------------------------------------------------------------
(* Every name that was asked for must be there, and hold something that    *)
(* can be handed on; what goes into an output also has to be a secret and  *)
(* too long to be a word of the log.                                       *)
Usable(n) ==
  /\ config[n].value # "odd"
  /\ job.export = "outputs" => n \notin Label /\ config[n].value = "long"

Complete == job.want \subseteq DOMAIN config

Select ==
  /\ pc = "select"
  /\ pc' = IF Complete /\ \A n \in job.want : Usable(n) THEN "mask" ELSE "failed"
  /\ UNCHANGED <<given, mode, untrustedTag, masked, sent, written>>

(* In outputs mode everything is masked, whatever Doppler says of it.      *)
ToMask_AsDopplerSays == job.want \cap Hidden
ToMask == IF job.export = "outputs" THEN job.want ELSE job.want \cap Hidden

MaskValues ==
  /\ pc = "mask" /\ pc' = "write"
  /\ masked' = masked \cup (ToMask \X Form)
                      \cup (IF job.export = "outputs" THEN Mask("object") ELSE {})
  /\ UNCHANGED <<given, mode, untrustedTag, sent, written>>

(* One output, or one name after the other into GITHUB_ENV.                *)
Write ==
  /\ pc = "write"
  /\ \/ /\ job.export = "outputs"
        /\ outputs' = job.want /\ pc' = "done" /\ UNCHANGED env
     \/ /\ job.export = "env"
        /\ \E n \in job.want \ env : env' = env \cup {n}
        /\ pc' = IF env' = job.want THEN "done" ELSE "write"
        /\ UNCHANGED outputs
  /\ UNCHANGED <<given, mode, untrustedTag, masked, sent>>

(* A call fails, a reply is too long or no JSON, a credential is oddly     *)
(* shaped, a command fails: what was masked, sent or written stays so.     *)
Break ==
  /\ pc \notin {"decide", "validate", "done", "failed"}
  /\ pc' = "failed"
  /\ UNCHANGED <<given, mode, untrustedTag, masked, sent, written>>

Next == \/ Decide \/ Validate \/ FetchAll \/ RequestJwt \/ Exchange \/ ReadConfig
        \/ Select \/ MaskValues \/ Write \/ Break

Spec == Init /\ [][Next]_vars

-----------------------------------------------------------------------------
TypeOK ==
  /\ job \in Job /\ config \in Config
  /\ pc \in {"decide", "validate", "all", "request", "exchange", "basic", "select",
             "mask", "write", "done", "failed"}
  /\ mode \in {"none", "oidc", "token"} /\ untrustedTag \in {"true", "false"}
  /\ masked \subseteq (Name \cup Credential \cup {"object"}) \X Form
  /\ sent \subseteq Credential
  /\ env \subseteq Name /\ outputs \subseteq Name
  /\ env # {} => outputs = {}

(* Nobody without write access decides what runs beside a secret: no       *)
(* credential is used and no secret is written for a pull request, for an  *)
(* event that is not on the list or for a tag outside the history, unless  *)
(* the caller has turned the gate off; and never for a fork.               *)
SecretsNeedTrust ==
  sent \cup env \cup outputs # {} =>
    /\ ~job.fork
    /\ job.gate = "on" =>
         /\ job.event \in {"push", "workflow_dispatch", "schedule"}
         /\ job.event # "schedule" => job.ref \in {"default", "version"}
         /\ job.event # "schedule" /\ job.ref = "version" => job.history # "out"

(* Whatever was used or written is masked in each form a later command may *)
(* print, wherever the action stops; only in GITHUB_ENV do the values that *)
(* Doppler calls unmasked, and its labels, stay readable.                  *)
MaskedByThen ==
  /\ \A c \in sent : <<c, "whole">> \in masked
  /\ (env \cap Hidden) \X Form \subseteq masked
  /\ outputs \X Form \subseteq masked
  /\ outputs # {} => <<"object", "whole">> \in masked

(* A caller that lists names never gets another secret, a blank list means *)
(* none and not all, and an output is all or nothing: each of the names,   *)
(* and no value that is empty.                                             *)
ExactlyWhatWasAsked ==
  /\ job.spelt # "" => env \cup outputs \subseteq job.want
  /\ outputs # {} => /\ outputs = job.want
                     /\ \A n \in outputs : config[n].value = "long"
  /\ pc = "done" /\ mode # "none" /\ job.spelt = "names" =>
       IF job.export = "outputs" THEN outputs = job.want ELSE env = job.want
=============================================================================
