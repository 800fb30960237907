------------------------------- MODULE EnvFile -------------------------------
(* The repository's .env file as the setup edits it                          *)
(* (src/gateway/src/setup/env-file.ts) and as the gateway reads it           *)
(* (parseEnvFile and loadConfig in src/gateway/src/config.ts).               *)
(*                                                                           *)
(* The file is the sequence of its assignments; comments and blank lines are *)
(* left out, since neither operation changes them or is changed by them.     *)
EXTENDS Naturals, Sequences

Optional == {"WINDOW", "TRANSPORT", "HOST", "PASSWORD"}    \* each has a default
Keys == {"PAIR", "URL", "ASR"} \cup Optional
Unset == "unset"        \* no assignment
Blank == "blank"        \* an assignment of nothing
Malformed == "malformed"

(* What `if (!value)` takes for missing.                                     *)
Absent(value) == value \in {Unset, Blank}

At(file, key) == {i \in DOMAIN file : file[i].key = key}

(* parseEnvFile: the last assignment of a key is the one read.               *)
Parse(file) ==
    [key \in Keys |->
        IF At(file, key) = {} THEN Unset
        ELSE file[CHOOSE i \in At(file, key) : \A j \in At(file, key) : j <= i].value]

(* upsertEnvValues: the first assignment of a key is replaced where it       *)
(* stands; a key without one is appended.                                    *)
Upsert(file, key, value) ==
    IF At(file, key) = {} THEN Append(file, [key |-> key, value |-> value])
    ELSE LET first == CHOOSE i \in At(file, key) : \A j \in At(file, key) : i <= j
         IN [file EXCEPT ![first].value = value]

(* An assignment is deleted, or turned into a comment.                       *)
WithoutLine(file, i) ==
    [j \in 1 .. Len(file) - 1 |-> IF j < i THEN file[j] ELSE file[j + 1]]

Once(file) == \A i, j \in DOMAIN file : file[i].key = file[j].key => i = j

(* validateProxyTokenPair: both halves, with the prefixes of a proxy pair.    *)
ValidPair(value) == value = "proxyPair"

(* requirePositiveInt, resolveHost, validatePasswordHash: absent or empty is *)
(* the default, and anything else must read. The transport alone is          *)
(* defaulted with `??`, which keeps an empty assignment, and refused then.   *)
Acceptable(key, value) ==
    /\ value # Malformed
    /\ key = "TRANSPORT" => value # Blank

(* loadConfig: what the gateway refuses to start with.                       *)
Starts(env) ==
    /\ ~ Absent(env["URL"]) /\ Acceptable("URL", env["URL"])
    /\ Acceptable("ASR", env["ASR"])
    /\ ValidPair(env["PAIR"])
    /\ \A key \in Optional : Acceptable(key, env[key])
=============================================================================
