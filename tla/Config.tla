--------------------------------- MODULE Config --------------------------------
(***************************************************************************)
(* ConfigVar::setValue and its listeners (config2.h) and LoadFromConfDir   *)
(* (config2.cpp), one variable set by one file.                            *)
(*                                                                         *)
(* setValue compares and tells the listeners under the read lock and       *)
(* assigns under the write lock; between the two it holds neither.  A load *)
(* notes the time of modification under a lock of its own and then reads   *)
(* the file, parses it and calls setValue.  The time of modification has a *)
(* resolution of seconds.                                                  *)
(***************************************************************************)
EXTENDS Naturals

CONSTANTS Setters,    \* threads that call setValue
          Loaders,    \* threads that call LoadFromConfDir
          Values,     \* of the variable
          Bad,        \* contents of a file that does not parse
          Last        \* bound: the last second

ASSUME ConfigAssumption == Values # {}

Threads == Setters \cup Loaders

VARIABLES
    val,        \* m_val
    told,       \* the new value the listeners were told last
    thread,     \* statement each thread has reached
    new,        \* the value it is to set
    file,       \* contents of the file
    mtime,      \* st_mtime
    now,        \* seconds
    noted,      \* s_file2Modifytime
    overlap,    \* history: two calls of setValue at a time
    loads,      \* history: loads that began before the last one had ended
    twice,      \* history: the file was changed twice within a second
    manual      \* history: setValue was called after the last load

configVars == <<val, told, thread, new, file, mtime, now, noted, overlap, loads, twice, manual>>

(***************************************************************************)
(* ready     outside setValue and LoadFromConfDir                          *)
(* load      has noted the time, about to read the file                    *)
(* notify    in setValue, about to compare and to tell the listeners       *)
(* assign    has told them, about to assign                                *)
(***************************************************************************)
ConfigTypeOK ==
    /\ val \in Values /\ told \in Values
    /\ thread \in [Threads -> {"ready", "load", "notify", "assign"}]
    /\ new \in [Threads -> Values]
    /\ file \in Values \cup Bad
    /\ mtime \in Nat /\ now \in Nat /\ noted \in Nat
    /\ overlap \in BOOLEAN /\ loads \in BOOLEAN /\ twice \in BOOLEAN /\ manual \in BOOLEAN

Initial == CHOOSE v \in Values : TRUE

ConfigInit ==
    /\ val = Initial /\ told = Initial
    /\ thread = [p \in Threads |-> "ready"]
    /\ new = [p \in Threads |-> Initial]
    /\ file = Initial /\ mtime = 1 /\ now = 1 /\ noted = 0
    /\ overlap = FALSE /\ loads = FALSE /\ twice = FALSE /\ manual = FALSE

Reaches(p, s) == thread' = [thread EXCEPT ![p] = s]
Others(p, S) == \E r \in Threads \ {p} : thread[r] \in S

(***************************************************************************)
(* setValue.                                                               *)
(***************************************************************************)
BeginSet(p, v) ==
    /\ p \in Setters /\ thread[p] = "ready"
    /\ new' = [new EXCEPT ![p] = v]
    /\ Reaches(p, "notify")
    /\ overlap' = (overlap \/ Others(p, {"notify", "assign"}))
    /\ manual' = TRUE
    /\ UNCHANGED <<val, told, file, mtime, now, noted, loads, twice>>

\* mutant: old and new value exchanged
ToldOld(p) == val

Told(p) == new[p]

\* Under the read lock, which any number of threads may hold.
TellListeners(p) ==
    /\ thread[p] = "notify"
    /\ IF new[p] # val
       THEN told' = Told(p) /\ Reaches(p, "assign")
       ELSE Reaches(p, "ready") /\ UNCHANGED told
    /\ UNCHANGED <<val, new, file, mtime, now, noted, overlap, loads, twice, manual>>

Assign(p) ==
    /\ thread[p] = "assign"
    /\ val' = new[p]
    /\ Reaches(p, "ready")
    /\ UNCHANGED <<told, new, file, mtime, now, noted, overlap, loads, twice, manual>>

(***************************************************************************)
(* LoadFromConfDir, without force.                                         *)
(***************************************************************************)
\* mutant: the time of the load
NotedNow == now

Noted == mtime

NoteTime(p) ==
    /\ p \in Loaders /\ thread[p] = "ready"
    /\ noted # mtime
    /\ noted' = Noted
    /\ Reaches(p, "load")
    /\ loads' = (loads \/ Others(p, {"load", "notify", "assign"}))
    /\ manual' = FALSE
    /\ UNCHANGED <<val, told, new, file, mtime, now, overlap, twice>>

\* A file that does not parse has been noted all the same.
LoadFile(p) ==
    /\ thread[p] = "load"
    /\ IF file \in Bad
       THEN Reaches(p, "ready") /\ UNCHANGED <<new, overlap>>
       ELSE /\ new' = [new EXCEPT ![p] = file]
            /\ Reaches(p, "notify")
            /\ overlap' = (overlap \/ Others(p, {"notify", "assign"}))
    /\ UNCHANGED <<val, told, file, mtime, now, noted, loads, twice, manual>>

\* Somebody changes the file.
Edit(c) ==
    /\ file' = c
    /\ mtime' = now
    /\ twice' = (twice \/ mtime = now)
    /\ UNCHANGED <<val, told, thread, new, now, noted, overlap, loads, manual>>

Tick ==
    /\ now < Last
    /\ now' = now + 1
    /\ UNCHANGED <<val, told, thread, new, file, mtime, noted, overlap, loads, twice, manual>>

-------------------------------------------------------------------------------
ConfigNext ==
    \/ \E p \in Threads : TellListeners(p) \/ Assign(p) \/ NoteTime(p) \/ LoadFile(p)
    \/ \E p \in Setters, v \in Values : BeginSet(p, v)
    \/ \E c \in Values \cup Bad : Edit(c)
    \/ Tick

ConfigSpec == ConfigInit /\ [][ConfigNext]_configVars
-------------------------------------------------------------------------------
(***************************************************************************)
(* The listeners know the value: what they were told last is what the      *)
(* variable has when no call is under way, unless two calls overlapped,    *)
(* which may tell in one order and assign in the other (config2.h:291-329).*)
(***************************************************************************)
Quiet == \A p \in Threads : thread[p] \notin {"notify", "assign"}

ListenersFollow == Quiet /\ ~overlap => told = val

(***************************************************************************)
(* A file that is noted as loaded has been: its value was set, although it *)
(* is noted before it is read and may change in between.  Not if it does   *)
(* not parse, if it was changed twice within a second, or if two loads or  *)
(* two calls of setValue overlapped; a later setValue counts               *)
(* (config2.cpp:35-85).                                                    *)
(***************************************************************************)
LoadedFileCounts ==
    /\ \A p \in Threads : thread[p] = "ready"
    /\ noted = mtime /\ file \notin Bad
    /\ ~twice /\ ~loads /\ ~overlap /\ ~manual
    => val = file
===============================================================================
