--------------------------- MODULE Configuration ---------------------------
(***************************************************************************)
(* TcpServer::loadConfig, line by line, and convertToKB.  A line is what   *)
(* the code tells apart: skipped (empty or a comment), broken (it does not *)
(* split at "=" into two parts), or a pair.  A value is what the code      *)
(* reads from its text: the text, atoi of it, and its last character.      *)
(* Members that no line sets keep what their memory held.                  *)
(***************************************************************************)
EXTENDS Integers, Sequences, FiniteSets, TwosComplement

CONSTANTS
  Files,    \* the configuration files to consider
  NotSet    \* what config holds for a member that no line has set

Values == [text : STRING, number : Int, last : STRING]
Lines == [kind : {"skipped", "broken", "pair"}, key : STRING, value : Values]

ASSUME ConfigurationAssumption ==
  Files \subseteq Seq(Lines) /\ NotSet \notin Int /\ NotSet \notin STRING

VARIABLES
  file,     \* the lines of yeyj.config
  lineNo,   \* the line that is read next
  loading,  \* the loop of loadConfig has not ended
  config    \* the members that loadConfig sets, by the key that sets them

configVars == <<file, lineNo, loading, config>>

NumberKeys == {"listening-port", "max-tcp", "max-tcp-per-worker", "inactive-tcp-timeout",
               "eviction-pool-size", "log-flush-interval-second", "log-high-watermask"}
MemoryKeys == {"max-vm-memory", "max-rss"}
SizeKeys == {"tcp-read-buffer-init-size-bytes", "tcp-read-buffer-max-size-bytes",
             "tcp-write-buffer-init-size-bytes", "tcp-write-buffer-max-size-bytes",
             "log-file-max-size"}

\* The words that a rule may be set to; others leave the member as it was.
Words ==
  [key \in {"max-tcp-eviction-rule", "inactive-tcp-eviction-rule", "load-balance",
            "log-file-rolling"} |->
    CASE key = "max-tcp-eviction-rule"      -> {"none", "random", "inactive"}
      [] key = "inactive-tcp-eviction-rule" -> {"none", "close"}
      [] key = "load-balance"     -> {"round-robin", "random", "min-connection", "ip-hash"}
      [] key = "log-file-rolling" -> {"none", "size", "daily", "size & daily"}]
RuleKeys == DOMAIN Words

Keys == NumberKeys \cup MemoryKeys \cup SizeKeys \cup RuleKeys \cup {"log-file-name-prefix"}

-----------------------------------------------------------------------------
\* Mutant: the unit G is forgotten.
ConvertToKBorMB(value) ==
  CASE value.last = "K" -> value.number
    [] value.last = "M" -> 2^10 * Signed(value.number, 22)
    [] OTHER            -> 0

\* factor * atoi(value), in 32 bits: the low zero bits of the factor are taken out,
\* so that the product is exact.  Without a unit the factor is 0.
ConvertToKB(value) ==
  CASE value.last = "K" -> value.number
    [] value.last = "M" -> 2^10 * Signed(value.number, 22)
    [] value.last = "G" -> 2^20 * Signed(value.number, 12)
    [] OTHER            -> 0

\* 1024 * convertToKB(value), likewise
ConvertToBytes(value) == 2^10 * Signed(ConvertToKB(value), 22)

\* Mutant: a word that is none of the rule's is taken over.
AssignAnyWord(key, value) ==
  CASE key \in NumberKeys -> value.number
    [] key \in MemoryKeys -> ConvertToKB(value)
    [] key \in SizeKeys   -> ConvertToBytes(value)
    [] OTHER              -> value.text

\* What the line key = value leaves in its member.
Assign(key, value) ==
  CASE key \in NumberKeys -> value.number
    [] key \in MemoryKeys -> ConvertToKB(value)
    [] key \in SizeKeys   -> ConvertToBytes(value)
    [] key \in RuleKeys   -> IF value.text \in Words[key] THEN value.text ELSE config[key]
    [] OTHER              -> value.text

-----------------------------------------------------------------------------
ConfigurationInit ==
  /\ file \in Files
  /\ lineNo = 1
  /\ loading = TRUE
  /\ config = [key \in Keys |-> NotSet]

ReadLine ==
  /\ loading /\ lineNo <= Len(file)
  /\ LET line == file[lineNo] IN
     /\ loading' = (line.kind # "broken")
     /\ config' = IF line.kind = "pair" /\ line.key \in Keys
                  THEN [config EXCEPT ![line.key] = Assign(line.key, line.value)]
                  ELSE config
  /\ lineNo' = lineNo + 1
  /\ UNCHANGED file

EndOfFile ==
  /\ loading /\ lineNo > Len(file)
  /\ loading' = FALSE
  /\ UNCHANGED <<file, lineNo, config>>

LoadConfig == ReadLine \/ EndOfFile

-----------------------------------------------------------------------------
\* The lines that count: pairs with a usable value before the first broken line.
Counts(i, key) ==
  /\ \A j \in 1..i : file[j].kind # "broken"
  /\ file[i].kind = "pair" /\ file[i].key = key
  /\ key \in RuleKeys => file[i].value.text \in Words[key]

Unit == [K |-> 1, M |-> 2^10, G |-> 2^20]

\* What is meant by nK, nM and nG (yeyj.config, README.md), as long as it can be
\* held in an int; a value without a unit is not one of those.
Meant(key, value) ==
  IF key \in SizeKeys \cup MemoryKeys
  THEN value.number * Unit[value.last] * (IF key \in SizeKeys THEN 2^10 ELSE 1)
  ELSE IF key \in NumberKeys THEN value.number ELSE value.text

\* The product is an int: number * unit is in -2^21..2^21 - 1 for a size in bytes, which
\* is 2^10 times as much, and in -2^31..2^31 - 1 for one in KB.
Representable(key, value) ==
  key \in SizeKeys \cup MemoryKeys =>
    /\ value.last \in DOMAIN Unit
    /\ LET half == (IF key \in SizeKeys THEN 2^20 ELSE 2^30) \div Unit[value.last]
       IN  value.number \div 2 \in -half..half - 1

\* The last line that counts for a key, and the value it gives.
LinesFor(key) == {i \in 1..Len(file) : Counts(i, key)}
LastValue(key) ==
  file[CHOOSE i \in LinesFor(key) : \A j \in LinesFor(key) : j <= i].value

\* The file gives the key a value that can be held, namely this one.
IsWritten(key) == LinesFor(key) # {} /\ Representable(key, LastValue(key))
Written(key) == Meant(key, LastValue(key))

\* Once loaded, every member has the meaning of the last line that counts for its
\* key (yeyj.config: "nK | nM | nG" and the lists of rules), however the lines are
\* ordered and repeated and whatever stands between them.
LoadedAsWritten ==
  ~loading =>
    \A key \in Keys :
      /\ LinesFor(key) = {} => config[key] = NotSet
      /\ IsWritten(key) => config[key] = Written(key)
=============================================================================
