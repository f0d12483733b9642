---------------------------- MODULE EnrollConfig ----------------------------
(***************************************************************************)
(* What the enrollment service makes of its environment and its allowlist  *)
(* when it starts (enrollment/src/config.c), and how it judges a device id *)
(* by it.  An environment variable that is not set is NoString.            *)
(***************************************************************************)
EXTENDS CText

NoFile   == << <<"unreadable">> >>
NoConfig == [port |-> 0]

\* dup_env: a variable that is set to nothing counts as not set
DupEnv(value) == IF value = <<>> THEN NoString ELSE value
Either(value, default) == IF DupEnv(value) = NoString THEN default ELSE value

\* parse_u16: a number from 1 on; -1 stands for failure
ParsePositive(text, limit) ==
  LET parsed == StrToUl(text, limit)
  IN IF text = <<>> \/ parsed = 0 THEN -1 ELSE parsed

\* parse_long: strtol negates into numbers parse_long refuses
ParseLong(text) == IF "-" \in Range(text) THEN -1 ELSE ParsePositive(text, MaxLong)

\* Mutant: the last character of a line is cut off, newline or not
LoadAllowlistMutant(file) ==
  {id \in {Trim(SubSeq(file[i], 1, Len(file[i]) - 1), Space) : i \in DOMAIN file} :
     id # <<>> /\ id[1] # "#"}
\* load_allowlist: the lines of the file without blanks, comments and empty ones
LoadAllowlist(file) ==
  {id \in {Trim(file[i], Space) : i \in DOMAIN file} : id # <<>> /\ id[1] # "#"}

(* nr_enroll_config_load.  file is the allowlist, as lines with their      *)
(* ends; env.required has the four variables without a default.            *)
Load(env, file) ==
  LET port  == IF env.port = NoString THEN 8080 ELSE ParsePositive(env.port, 65535)
      ttl   == IF env.ttl = NoString THEN 365 ELSE ParseLong(env.ttl)
      region == Either(env.region, DupEnv(env.defaultRegion))
      listed == DupEnv(env.allowlist) # NoString
      allowed == IF listed /\ file # NoFile THEN LoadAllowlist(file) ELSE {}
  IN IF \/ port = -1 \/ ttl = -1
        \/ NoString \in {DupEnv(env.required[name]) : name \in DOMAIN env.required}
        \/ region = NoString
        \/ listed /\ file = NoFile
        \/ env.allowAny # <<"1">> /\ allowed = {}
     THEN NoConfig
     ELSE [port |-> port, ttl |-> ttl, region |-> region, allowed |-> allowed,
           allowAny |-> env.allowAny = <<"1">>, token |-> DupEnv(env.token)]

DeviceAllowed(cfg, id) == cfg.allowAny \/ id \in cfg.allowed

\* valid_device_id, for the characters that occur here
ValidDeviceId(id, maxLen) ==
  Len(id) \in 1..maxLen /\ \A i \in DOMAIN id : id[i] \in {"a", "b", "1", "-", ":"}

\* The first two checks of nr_enrollment_issue_certificate
MayIssue(cfg, id, maxLen) == ValidDeviceId(id, maxLen) /\ DeviceAllowed(cfg, id)
=============================================================================
