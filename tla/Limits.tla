------------------------------- MODULE Limits --------------------------------
(***************************************************************************)
(* The limits a process finds in its environment: get_limit_from_env and   *)
(* the do_init_device_*_limits functions (multiprocess_memory_limit.c).    *)
(*                                                                         *)
(* A setting is a number, as its digits say, and a suffix.  size_t has the *)
(* values 0 .. Word - 1.                                                   *)
(***************************************************************************)
EXTENDS Naturals

CONSTANTS Word,   \* 2^64 in the code
          Kilo    \* 1024 in the code

ASSUME LimitsAssumption == Word \in Nat \ {0, 1} /\ Kilo \in Nat \ {0, 1}

Suffixes == {"none", "K", "M", "G", "other"}

Unset == [num |-> 0, suffix |-> "none"]

(* The factor of a suffix; one the code does not know counts as none.       *)
Scalar(suffix) ==
    CASE suffix = "G" -> Kilo * Kilo * Kilo
      [] suffix = "M" -> Kilo * Kilo
      [] suffix = "K" -> Kilo
      [] OTHER -> 1

(* strtoul: a number that does not fit becomes the largest one that does.   *)
strtoul(num) == IF num < Word THEN num ELSE Word - 1

get_limit_from_env_unchecked(s) == (strtoul(s.num) * Scalar(s.suffix)) % Word

(* A product of zero, and one that has wrapped, mean no limit.              *)
get_limit_from_env(s) ==
    LET res == strtoul(s.num)
        scaled == (res * Scalar(s.suffix)) % Word
    IN IF scaled \div Scalar(s.suffix) = res THEN scaled ELSE 0

(* own is the setting of the device, fallback the one without an index.     *)
do_init_device_memory_limits(own, fallback) ==
    IF get_limit_from_env(own) > 0 THEN get_limit_from_env(own) ELSE get_limit_from_env(fallback)

do_init_device_sm_limits(own, fallback) ==
    CASE get_limit_from_env(own) > 0 -> get_limit_from_env(own)
      [] get_limit_from_env(own) = 0 /\ get_limit_from_env(fallback) > 0 -> get_limit_from_env(fallback)
      [] OTHER -> 100

(* load_env_from_file: the lines of the override file, up to the first one  *)
(* without "=", replace the settings of the environment.                    *)
load_env_from_file(env, lines) ==
    [name \in DOMAIN env |->
        LET good == {i \in DOMAIN lines : \A j \in 1..i : lines[j].name # "bad"}
            hits == {i \in good : lines[i].name = name}
        IN IF hits = {} THEN env[name]
           ELSE lines[CHOOSE i \in hits : \A j \in hits : j <= i].value]

(* What a setting means in numbers without a width.                         *)
Meaning(s) == s.num * Scalar(s.suffix)

(* The parser against its meaning, for every setting with a known suffix:   *)
(* the limit is the value that was written, or none if that does not fit in *)
(* a word, and never a smaller one; only a bare number that does not fit is *)
(* cut off at the largest word (get_limit_from_env).                        *)
ParsedExactly ==
    \A num \in 0..(Word + 1), suffix \in Suffixes \ {"other"} :
        LET s == [num |-> num, suffix |-> suffix]
            limit == get_limit_from_env(s)
        IN IF Meaning(s) < Word THEN limit = Meaning(s)
           ELSE limit = IF suffix = "none" THEN Word - 1 ELSE 0
=============================================================================
