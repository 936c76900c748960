------------------------------ MODULE Protocol ------------------------------
(***************************************************************************)
(* Level names and subscription filters: pkg/protocol/protocol.go.         *)
(*                                                                         *)
(* A record is [source, level, by]; "by" names the publishing connection   *)
(* and is a history field, the message, attributes and time are payload.   *)
(* A subscription is [sources, minLevel, replay, replayPerSource]; an      *)
(* empty set of sources means every source, a replay of 0 or less no limit.*)
(***************************************************************************)
EXTENDS Integers

(* Spellings a publisher may send.  strings.ToLower and TrimSpace fold     *)
(* case and blanks, so that one member stands for each folded spelling     *)
(* and its canonical form; "trace" stands for every level the code does    *)
(* not know.                                                               *)
Spellings == {"", "debug", "dbg", "info", "warn", "warning", "error", "err",
              "trace", "DEBUG", "INFO", "WARN", "ERROR", "TRACE"}

CanonicalLevels == {"DEBUG", "INFO", "WARN", "ERROR", "TRACE"}

NormalizeLevel(level) ==
  CASE level \in {"debug", "dbg", "DEBUG"}    -> "DEBUG"
    [] level \in {"warn", "warning", "WARN"}  -> "WARN"
    [] level \in {"error", "err", "ERROR"}    -> "ERROR"
    [] level \in {"info", "", "INFO"}         -> "INFO"
    [] OTHER                                  -> "TRACE"

LevelValue(level) ==
  CASE NormalizeLevel(level) = "DEBUG" -> -4
    [] NormalizeLevel(level) = "WARN"  -> 4
    [] NormalizeLevel(level) = "ERROR" -> 8
    [] OTHER                           -> 0

(* Whether a subscription takes a record.                                  *)
Matches(sub, record) ==
  /\ sub.minLevel = "" \/ LevelValue(record.level) >= LevelValue(sub.minLevel)
  /\ sub.sources = {} \/ record.source \in sub.sources
=============================================================================
