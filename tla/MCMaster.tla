------------------------------ MODULE MCMaster ------------------------------
(* Master with a few configuration files: the shipped one, and others that show *)
(* each rule of loadConfig and of load balancing.                               *)
EXTENDS Master

Value(text, number, last) == [text |-> text, number |-> number, last |-> last]
Line(kind, key, value) == [kind |-> kind, key |-> key, value |-> value]

Skipped == Line("skipped", "", Value("", 0, ""))
Broken == Line("broken", "", Value("", 0, ""))
Set(key, word) == Line("pair", key, Value(word, 0, ""))
SetInt(key, n) == Line("pair", key, Value("", n, ""))
SetSize(key, n, unit) == Line("pair", key, Value("", n, unit))

BufferSizes(init, initUnit, max, maxUnit) ==
  <<SetSize("tcp-read-buffer-init-size-bytes", init, initUnit),
    SetSize("tcp-read-buffer-max-size-bytes", max, maxUnit),
    SetSize("tcp-write-buffer-init-size-bytes", init, initUnit),
    SetSize("tcp-write-buffer-max-size-bytes", max, maxUnit)>>

\* yeyj.config, whose first key is not one of loadConfig's.
Shipped ==
  <<Skipped, SetInt("max-tcp-", 100), SetInt("max-tcp-per-worker", 100),
    Set("max-tcp-eviction-rule", "inactive"), SetInt("inactive-tcp-timeout", 10),
    Set("inactive-tcp-eviction-rule", "none"), SetSize("max-vm-memory", 100, "M"),
    SetSize("max-rss", 100, "M"), SetInt("eviction-pool-size", 5),
    Set("load-balance", "ip-hash")>>
  \o BufferSizes(1, "M", 10, "M") \o
  <<Set("log-file-name-prefix", "yeyjlogfile"), Set("log-file-rolling", "size & daily"),
    SetSize("log-file-max-size", 1, "K"), SetInt("log-flush-interval-second", 1),
    SetInt("log-high-watermask", 1000)>>

\* A key given twice, a word that is no rule after one that is, large units, fewer
\* connections than workers.
RoundRobin ==
  BufferSizes(3, "K", 1, "G") \o
  <<SetInt("max-tcp", 2), SetInt("max-tcp-per-worker", 7), SetInt("max-tcp-per-worker", 5),
    Set("load-balance", "random"), Set("load-balance", "round-robin"),
    Set("load-balance", "leastconn"), SetSize("max-rss", 3, "G")>>

MinConnection ==
  <<Set("load-balance", "min-connection"), SetInt("max-tcp", 30), SetInt("max-tcp-per-worker", 100)>>
  \o BufferSizes(0, "K", 5, "K")

\* Nothing is read behind the broken line: the sizes of the buffers are not set.
CutShort ==
  <<Set("load-balance", "random"), SetInt("max-tcp", 9), Broken>> \o BufferSizes(1, "K", 2, "K")

\* A size without a unit ("4096": the last character is cut off), and sizes that an int cannot hold.
Overflowing ==
  <<Set("load-balance", "random")>> \o BufferSizes(2, "G", 4, "G") \o
  <<SetSize("log-file-max-size", 409, "6"), SetSize("max-vm-memory", 2048, "G"), SetSize("max-rss", -3, "G"),
    SetSize("max-rss", -2049, "G"), SetSize("max-vm-memory", -5, "M")>>

NoRule == BufferSizes(1, "K", 2, "K")

\* yeyj.config is not there.
Missing == <<>>

AllFiles == {Shipped, RoundRobin, MinConnection, CutShort, Overflowing, NoRule, Missing}

Uninitialised == {-7, 0, 5}
=============================================================================
