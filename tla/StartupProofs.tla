---------------------------- MODULE StartupProofs ----------------------------
(***************************************************************************)
(* Theorems about module Startup, for every text a user may write, every   *)
(* word the stack may hold and every width of int and long.                *)
(***************************************************************************)
EXTENDS Startup, TLAPS

USE DEF slotVars, prefVars, comVars, vars

-----------------------------------------------------------------------------
(* The table of handles.                                                   *)

(* Letting a handle go forgets its entry and no other, and never the empty *)
(* element's, whatever integer the handle is.                              *)
LEMMA FreedFacts ==
  ASSUME NEW t \in Seq(Entries), NEW h \in Int
  PROVE  /\ Freed(t, h) \in Seq(Entries) /\ Len(Freed(t, h)) = Len(t)
         /\ \A i \in 1..Len(t) :
               Freed(t, h)[i] = IF i = h + 1 /\ i >= 2 THEN "null" ELSE t[i]
  BY DEF Freed, Entries

(* A new entry is the last one and leaves the others as they are.          *)
LEMMA AppendFacts ==
  ASSUME NEW t \in Seq(Entries), NEW e \in Entries
  PROVE  /\ Append(t, e) \in Seq(Entries) /\ Len(Append(t, e)) = Len(t) + 1
         /\ \A i \in 1..Len(t) : Append(t, e)[i] = t[i]
         /\ Append(t, e)[Len(t) + 1] = e
  OBVIOUS

(* store_handle: the slot's entry is forgotten, the new one is the last.   *)
LEMMA StoredFacts ==
  ASSUME NEW t \in Seq(Entries), NEW slot \in Int, NEW e \in Entries
  PROVE  /\ Stored(t, slot, e) \in Seq(Entries) /\ Len(Stored(t, slot, e)) = Len(t) + 1
         /\ \A i \in 1..Len(t) :
               Stored(t, slot, e)[i] = IF i = slot + 1 /\ i >= 2 THEN "null" ELSE t[i]
         /\ Stored(t, slot, e)[Len(t) + 1] = e
<1> DEFINE f == Freed(t, slot)
<1>1. f \in Seq(Entries) /\ Len(f) = Len(t)
  BY FreedFacts
<1>2. \A i \in 1..Len(t) : f[i] = IF i = slot + 1 /\ i >= 2 THEN "null" ELSE t[i]
  BY FreedFacts
<1>3. Stored(t, slot, e) = Append(f, e)
  BY DEF Stored
<1> HIDE DEF f
<1> QED  BY <1>1, <1>2, <1>3, AppendFacts

(* ref_assign_inc of two slots that are not the same: what the source      *)
(* refers to gets a second handle, and the destination's is let go.        *)
LEMMA CopiedFacts ==
  ASSUME NEW t \in Seq(Entries), NEW dest \in Nat, NEW src \in Nat,
         src < Len(t), t[src + 1] # "null", dest # src \/ src = 0
  PROVE  /\ Copied(t, dest, src) \in Seq(Entries)
         /\ Len(Copied(t, dest, src)) = Len(t) + 1
         /\ \A i \in 1..Len(t) :
               Copied(t, dest, src)[i] = IF i = dest + 1 /\ i >= 2 THEN "null" ELSE t[i]
         /\ Copied(t, dest, src)[Len(t) + 1] = t[src + 1]
<1> DEFINE f == Freed(t, dest)
<1>1. f \in Seq(Entries) /\ Len(f) = Len(t)
  BY FreedFacts
<1>2. \A i \in 1..Len(t) : f[i] = IF i = dest + 1 /\ i >= 2 THEN "null" ELSE t[i]
  BY FreedFacts
<1>3. src + 1 \in 1..Len(t) /\ f[src + 1] = t[src + 1] /\ t[src + 1] \in Entries
  BY <1>2
<1>4. Valid(t, src)
  BY DEF Valid
<1>5. Copied(t, dest, src) = Append(f, t[src + 1])
  BY <1>3, <1>4 DEF Copied
<1> HIDE DEF f
<1>6. /\ Append(f, t[src + 1]) \in Seq(Entries) /\ Len(Append(f, t[src + 1])) = Len(f) + 1
      /\ \A i \in 1..Len(f) : Append(f, t[src + 1])[i] = f[i]
      /\ Append(f, t[src + 1])[Len(f) + 1] = t[src + 1]
  BY <1>1, <1>3, AppendFacts
<1> QED  BY <1>1, <1>2, <1>5, <1>6

-----------------------------------------------------------------------------
(* Who holds what.                                                         *)

Slots == {config_handle, config_node}
         \cup (IF pc \in {"copy", "drop"} THEN {runtime_node} ELSE {})

(* Only the entries of the slots in use refer to the document, and those   *)
(* that copy a handle never copy it onto itself.                           *)
TableInv ==
    /\ table \in Seq(Entries) /\ Len(table) >= 1 /\ table[1] = "empty"
    /\ config_handle \in Nat /\ config_handle < Len(table)
    /\ config_node \in Nat /\ config_node < Len(table)
    /\ runtime_node \in Int
    /\ \A i \in 2..Len(table) : table[i] # "null" => i - 1 \in Slots
    /\ pc \in {"main", "init", "read"} =>
          table = <<"empty">> /\ config_handle = 0 /\ config_node = 0
    /\ pc = "debug" => config_node = 0
    /\ pc = "copy" => runtime_node < Len(table) /\ runtime_node > config_node
                      /\ table[runtime_node + 1] # "null"
    /\ pc = "drop" => runtime_node \in 1..config_node - 1
    /\ pc = "dropHandle" => config_node = 0
    /\ pc \in {"settings", "overrides", "ready"} => config_handle = 0 /\ config_node = 0

(* What a lookup finds is an entry of the table.                           *)
LEMMA ChildType == Child("radacdebug") \in Entries /\ Child("runtime") \in Entries
  BY DEF Child, Entries

(* The first three handles of a section: the call's own, which it lets go, *)
(* and the caller's.                                                       *)
LEMMA SectionRead ==
  ASSUME TableInv, ReadProjectPreferences
  PROVE  /\ TableInv'
         /\ table'[config_handle' + 1] = IF HasSection THEN "section" ELSE "empty"
<1>1. /\ table = <<"empty">> /\ config_handle = 0 /\ config_node = 0 /\ pc = "read"
      /\ pc' = "debug" /\ config_node' = 0 /\ runtime_node' = runtime_node
      /\ runtime_node \in Int
  BY DEF ReadProjectPreferences, TableInv
<1>2. table \in Seq(Entries) /\ Len(table) = 1 /\ table[1] = "empty"
  BY <1>1 DEF TableInv
<1>3. "section" \in Entries /\ 0 \in Int /\ 0 \in Nat /\ 1 \in Nat
  BY DEF Entries
<1>4. CASE HasSection
  <2> DEFINE stored == Stored(table, 0, "section")
             copied == Copied(stored, 0, 1)
  <2>1. table' = Freed(copied, 1) /\ config_handle' = Len(stored)
    BY <1>1, <1>2, <1>4 DEF ReadProjectPreferences, HasSection, NewHandle
  <2>2. stored \in Seq(Entries)
    BY <1>2, <1>3, StoredFacts
  <2>3. Len(stored) = Len(table) + 1
    BY <1>2, <1>3, StoredFacts
  <2>4. stored[Len(table) + 1] = "section"
    BY <1>2, <1>3, StoredFacts
  <2>5. stored[1] = table[1]
    BY <1>2, <1>3, StoredFacts
  <2> HIDE DEF stored
  <2>6. /\ Len(stored) = 2 /\ stored[1] = "empty" /\ stored[2] = "section"
        /\ 1 < Len(stored) /\ stored[1 + 1] # "null"
    BY <1>2, <2>3, <2>4, <2>5
  <2>7. copied \in Seq(Entries)
    BY <1>3, <2>2, <2>6, CopiedFacts
  <2>8. Len(copied) = Len(stored) + 1
    BY <1>3, <2>2, <2>6, CopiedFacts
  <2>9. copied[Len(stored) + 1] = stored[1 + 1]
    BY <1>3, <2>2, <2>6, CopiedFacts
  <2>10. copied[1] = stored[1]
    <3>1. \A i \in 1..Len(stored) :
             copied[i] = IF i = 0 + 1 /\ i >= 2 THEN "null" ELSE stored[i]
      BY <1>3, <2>2, <2>6, CopiedFacts, Zenon
    <3>2. 1 \in 1..Len(stored) /\ ~(1 = 0 + 1 /\ 1 >= 2)
      BY <2>2, <2>6
    <3> QED  BY <3>1, <3>2
  <2> HIDE DEF copied
  <2>11. Len(copied) = 3 /\ copied[1] = "empty" /\ copied[3] = "section"
    BY <2>6, <2>8, <2>9, <2>10
  <2>12. table' \in Seq(Entries) /\ Len(table') = Len(copied)
    BY <2>1, <2>7, FreedFacts
  <2>13. \A i \in 1..Len(copied) :
            table'[i] = IF i = 1 + 1 /\ i >= 2 THEN "null" ELSE copied[i]
    BY <2>1, <2>7, FreedFacts
  <2>14. table'[1] = "empty" /\ table'[2] = "null" /\ table'[3] = "section"
    BY <2>11, <2>13
  <2> QED
    BY <1>1, <1>4, <2>1, <2>6, <2>11, <2>12, <2>14 DEF TableInv, Slots
<1>5. CASE ~HasSection
  <2> DEFINE copied == Copied(table, 0, 0)
  <2>1. table' = copied /\ config_handle' = 1
    BY <1>1, <1>2, <1>5 DEF ReadProjectPreferences, HasSection, NewHandle
  <2>2. 0 < Len(table) /\ table[0 + 1] # "null"
    BY <1>2
  <2>3. copied \in Seq(Entries)
    BY <1>2, <1>3, <2>2, CopiedFacts
  <2>4. Len(copied) = Len(table) + 1
    BY <1>2, <1>3, <2>2, CopiedFacts
  <2>5. copied[Len(table) + 1] = table[0 + 1]
    BY <1>2, <1>3, <2>2, CopiedFacts
  <2>6. copied[1] = table[1]
    BY <1>2, <1>3, <2>2, CopiedFacts
  <2> HIDE DEF copied
  <2>7. /\ table' \in Seq(Entries) /\ Len(table') = 2
        /\ table'[1] = "empty" /\ table'[2] = "empty"
    BY <1>2, <2>1, <2>3, <2>4, <2>5, <2>6
  <2> QED  BY <1>1, <1>5, <2>1, <2>7 DEF TableInv, Slots
<1> QED  BY <1>4, <1>5

(* Every step keeps the table in order, whatever runtime_node let go.      *)
LEMMA TableInvariant == Spec => []TableInv
<1>1. Init => TableInv
  BY InputAssumption DEF Init, TableInv, Slots, Entries
<1>2. TableInv /\ [Next]_vars => TableInv'
  <2> SUFFICES ASSUME TableInv, [Next]_vars PROVE TableInv'
    OBVIOUS
  <2>1. CASE ReadProjectPreferences
    BY <2>1, SectionRead
  <2>2. CASE GetRadacdebug
    <3> DEFINE e == Child("radacdebug")
    <3>1. /\ table \in Seq(Entries) /\ config_node = 0 /\ 0 \in Int /\ e \in Entries
      BY <2>2, ChildType DEF TableInv, GetRadacdebug
    <3>2. table' = Stored(table, 0, e) /\ config_node' = Len(table)
      BY <2>2, <3>1 DEF GetRadacdebug, NewHandle
    <3> HIDE DEF e
    <3>3. table' \in Seq(Entries) /\ Len(table') = Len(table) + 1
      BY <3>1, <3>2, StoredFacts
    <3>4. \A i \in 1..Len(table) : table'[i] = table[i]
      BY <3>1, <3>2, StoredFacts
    <3> QED  BY <2>2, <3>2, <3>3, <3>4 DEF GetRadacdebug, TableInv, Slots
  <2>3. CASE GetRuntime
    <3> DEFINE e == Child("runtime")
    <3>1. table \in Seq(Entries) /\ runtime_node \in Int /\ e \in Entries
      BY <2>3, ChildType DEF TableInv, GetRuntime
    <3>2. table' = Stored(table, runtime_node, e) /\ runtime_node' = Len(table)
      BY <2>3 DEF GetRuntime, NewHandle
    <3>3. e # "null"
      BY DEF Child
    <3> HIDE DEF e
    <3>4. /\ table' \in Seq(Entries) /\ Len(table') = Len(table) + 1
          /\ table'[Len(table) + 1] = e
      BY <3>1, <3>2, StoredFacts
    <3>5. \A i \in 1..Len(table) :
             table'[i] = IF i = runtime_node + 1 /\ i >= 2 THEN "null" ELSE table[i]
      BY <3>1, <3>2, StoredFacts
    <3> QED  BY <2>3, <3>2, <3>3, <3>4, <3>5 DEF GetRuntime, TableInv, Slots
  <2>4. CASE CopyRuntime
    <3>1. /\ table \in Seq(Entries) /\ config_node \in Nat /\ runtime_node \in Nat
          /\ runtime_node < Len(table) /\ runtime_node > config_node
          /\ table[runtime_node + 1] # "null" /\ config_node # runtime_node
      BY <2>4 DEF TableInv, CopyRuntime
    <3>2. table' = Copied(table, config_node, runtime_node) /\ config_node' = Len(table)
      BY <2>4 DEF CopyRuntime, NewHandle
    <3>3. table' \in Seq(Entries) /\ Len(table') = Len(table) + 1
      BY <3>1, <3>2, CopiedFacts
    <3>4. \A i \in 1..Len(table) :
             table'[i] = IF i = config_node + 1 /\ i >= 2 THEN "null" ELSE table[i]
      BY <3>1, <3>2, CopiedFacts
    <3> QED  BY <2>4, <3>1, <3>2, <3>3, <3>4 DEF CopyRuntime, TableInv, Slots
  <2>5. CASE ReleaseRuntimeNode \/ ReleaseConfigNode \/ ReleaseConfigHandle
    <3> DEFINE h == IF pc = "drop" THEN runtime_node
                    ELSE IF pc = "dropNode" THEN config_node ELSE config_handle
    <3>1. table' = Freed(table, h) /\ table \in Seq(Entries) /\ h \in Int
      BY <2>5 DEF ReleaseRuntimeNode, ReleaseConfigNode, ReleaseConfigHandle, TableInv
    <3> HIDE DEF h
    <3>2. table' \in Seq(Entries) /\ Len(table') = Len(table)
      BY <3>1, FreedFacts
    <3>3. \A i \in 1..Len(table) :
             table'[i] = IF i = h + 1 /\ i >= 2 THEN "null" ELSE table[i]
      BY <3>1, FreedFacts
    <3>4. CASE ReleaseRuntimeNode
      BY <3>2, <3>3, <3>4 DEF ReleaseRuntimeNode, TableInv, Slots, h
    <3>5. CASE ReleaseConfigNode
      BY <3>2, <3>3, <3>5 DEF ReleaseConfigNode, TableInv, Slots, h
    <3>6. CASE ReleaseConfigHandle
      BY <3>2, <3>3, <3>6 DEF ReleaseConfigHandle, TableInv, Slots, h
    <3> QED  BY <2>5, <3>4, <3>5, <3>6
  <2>6. CASE BoincInit \/ SetInitData \/ WithoutInitData
    BY <2>6 DEF BoincInit, SetInitData, WithoutInitData, TableInv, Slots
  <2>7. CASE ParseRadacdebug \/ SetQuota
    BY <2>7 DEF ParseRadacdebug, SetQuota, TableInv, Slots
  <2>8. CASE GetGmcComSettings \/ ApplyDebugOverrides
    BY <2>8 DEF GetGmcComSettings, ApplyDebugOverrides, TableInv, Slots
  <2>9. CASE Ended \/ UNCHANGED vars
    BY <2>9 DEF Ended, TableInv, Slots
  <2> QED
    BY <2>1, <2>2, <2>3, <2>4, <2>5, <2>6, <2>7, <2>8, <2>9 DEF Next, ReadPreferences
<1> QED  BY <1>1, <1>2, PTL DEF Spec

(* Once the preferences have been read, nothing holds on to the document,  *)
(* whatever the stack word of runtime_node was.                            *)
THEOREM DocumentIsFreed == Spec => []DocumentFreed
<1>1. TableInv => DocumentFreed
  BY DEF TableInv, DocumentFreed, Slots
<1> QED  BY <1>1, TableInvariant, PTL

-----------------------------------------------------------------------------
(* What the handles refer to.                                              *)

Section == IF HasSection THEN "section" ELSE "empty"
Found(key) == IF HasSection /\ init_data[key].kind # "missing" THEN key ELSE "empty"

(* Each lookup finds the preference it asks for, and the flag and the      *)
(* quota come from what it found.                                          *)
ContentInv ==
    /\ init_data \in InitData
    /\ pc \notin {"main", "init", "failed"} =>
          (init_data_len <=> init_data.form \notin {"none", "blank", "tooLarge"})
    /\ pc \in {"debug", "parse", "runtime", "copy", "drop", "quota", "dropNode",
               "dropHandle"} => init_data_len
    /\ pc \in {"debug", "parse", "runtime"} => table[config_handle + 1] = Section
    /\ pc = "parse" => table[config_node + 1] = Found("radacdebug")
    /\ pc = "copy" => table[runtime_node + 1] = Found("runtime")
    /\ pc \in {"drop", "quota"} => table[config_node + 1] = Found("runtime")

FlagInv ==
    pc \in {"runtime", "copy", "drop", "quota", "dropNode", "dropHandle", "settings",
           "overrides", "ready"} => (debug_enabled <=> DebugAsked)

QuotaInv ==
    /\ pc \in {"main", "init", "read", "debug", "parse", "runtime", "copy", "drop",
               "quota"} => num_samples = DefaultNumSamples
    /\ pc \in {"dropNode", "dropHandle", "settings", "overrides", "ready"} =>
          num_samples \in QuotasAsked

(* A lookup below the section finds the element the user wrote, if any.    *)
LEMMA ChildFound ==
  ASSUME TableInv, table[config_handle + 1] = Section,
         NEW key \in {"radacdebug", "runtime"}
  PROVE  Child(key) = Found(key)
<1>1. config_handle \in 0..Len(table) - 1
  BY DEF TableInv
<1>2. Deref(config_handle) = Section
  BY <1>1 DEF Deref, Valid, Section
<1> QED  BY <1>2 DEF Child, Found, Section

(* The text of what was found is the user's text, or none.                 *)
LEMMA TextFound ==
  ASSUME TableInv, NEW key \in {"radacdebug", "runtime"},
         table[config_node + 1] = Found(key)
  PROVE  Text(config_node) = IF HasSection /\ init_data[key].kind # "missing"
                             THEN init_data[key] ELSE Other("missing")
<1>1. config_node \in 0..Len(table) - 1
  BY DEF TableInv
<1>2. Deref(config_node) = Found(key)
  BY <1>1 DEF Deref, Valid, Found
<1> QED  BY <1>2 DEF Text, Found

(* Every step keeps what the handles refer to.                             *)
LEMMA ContentInvariant == Spec => []ContentInv
<1>1. Init => ContentInv
  BY DEF Init, ContentInv
<1>2. TableInv /\ ContentInv /\ [Next]_vars => ContentInv'
  <2> SUFFICES ASSUME TableInv, ContentInv, [Next]_vars PROVE ContentInv'
    OBVIOUS
  <2>0. /\ init_data' = init_data /\ (HasSection' <=> HasSection) /\ Section' = Section
        /\ Found("radacdebug")' = Found("radacdebug") /\ Found("runtime")' = Found("runtime")
    BY DEF Next, BoincInit, SetInitData, WithoutInitData, ReadPreferences,
           ReadProjectPreferences, GetRadacdebug, ParseRadacdebug, GetRuntime, CopyRuntime,
           ReleaseRuntimeNode, SetQuota, ReleaseConfigNode, ReleaseConfigHandle,
           GetGmcComSettings, ApplyDebugOverrides, Ended, HasSection, Section, Found
  <2> USE <2>0 DEF ContentInv
  <2>1. CASE ReadProjectPreferences
    <3>1. table'[config_handle' + 1] = Section
      BY <2>1, SectionRead DEF Section
    <3> QED  BY <2>1, <3>1 DEF ReadProjectPreferences
  <2>2. CASE GetRadacdebug
    <3> DEFINE e == Child("radacdebug")
    <3>1. /\ table \in Seq(Entries) /\ config_node = 0 /\ 0 \in Int /\ e \in Entries
          /\ config_handle + 1 \in 1..Len(table)
      BY <2>2, ChildType DEF TableInv, GetRadacdebug
    <3>2. table' = Stored(table, 0, e) /\ config_node' = Len(table)
      BY <2>2, <3>1 DEF GetRadacdebug, NewHandle
    <3>3. e = Found("radacdebug")
      BY <2>2, ChildFound DEF GetRadacdebug
    <3> HIDE DEF e
    <3>4. table'[Len(table) + 1] = e
      BY <3>1, <3>2, StoredFacts
    <3>5. \A i \in 1..Len(table) : table'[i] = table[i]
      BY <3>1, <3>2, StoredFacts
    <3> QED  BY <2>2, <3>1, <3>2, <3>3, <3>4, <3>5 DEF GetRadacdebug
  <2>3. CASE GetRuntime
    <3> DEFINE e == Child("runtime")
    <3>1. table \in Seq(Entries) /\ runtime_node \in Int /\ e \in Entries
      BY <2>3, ChildType DEF TableInv, GetRuntime
    <3>2. table' = Stored(table, runtime_node, e) /\ runtime_node' = Len(table)
      BY <2>3 DEF GetRuntime, NewHandle
    <3>3. e = Found("runtime")
      BY <2>3, ChildFound DEF GetRuntime
    <3> HIDE DEF e
    <3>4. table'[Len(table) + 1] = e
      BY <3>1, <3>2, StoredFacts
    <3> QED  BY <2>3, <3>2, <3>3, <3>4 DEF GetRuntime
  <2>4. CASE CopyRuntime
    <3>1. /\ table \in Seq(Entries) /\ config_node \in Nat /\ runtime_node \in Nat
          /\ runtime_node < Len(table) /\ table[runtime_node + 1] # "null"
          /\ config_node # runtime_node
      BY <2>4 DEF TableInv, CopyRuntime
    <3>2. table' = Copied(table, config_node, runtime_node) /\ config_node' = Len(table)
      BY <2>4 DEF CopyRuntime, NewHandle
    <3>3. table'[Len(table) + 1] = table[runtime_node + 1]
      BY <3>1, <3>2, CopiedFacts
    <3> QED  BY <2>4, <3>2, <3>3 DEF CopyRuntime
  <2>5. CASE ReleaseRuntimeNode
    <3>1. /\ table' = Freed(table, runtime_node) /\ table \in Seq(Entries)
          /\ runtime_node \in Int /\ config_node + 1 \in 1..Len(table)
          /\ runtime_node # config_node
      BY <2>5 DEF ReleaseRuntimeNode, TableInv
    <3>2. \A i \in 1..Len(table) :
             table'[i] = IF i = runtime_node + 1 /\ i >= 2 THEN "null" ELSE table[i]
      BY <3>1, FreedFacts
    <3>3. table'[config_node + 1] = table[config_node + 1]
      BY <3>1, <3>2 DEF TableInv
    <3> QED  BY <2>5, <3>3 DEF ReleaseRuntimeNode
  <2>6. CASE SetInitData
    BY <2>6 DEF SetInitData
  <2>7. CASE BoincInit \/ WithoutInitData
    BY <2>7 DEF BoincInit, WithoutInitData
  <2>8. CASE ParseRadacdebug \/ SetQuota
    BY <2>8 DEF ParseRadacdebug, SetQuota
  <2>9. CASE ReleaseConfigNode \/ ReleaseConfigHandle
    BY <2>9 DEF ReleaseConfigNode, ReleaseConfigHandle
  <2>10. CASE GetGmcComSettings \/ ApplyDebugOverrides
    BY <2>10 DEF GetGmcComSettings, ApplyDebugOverrides
  <2>11. CASE Ended \/ UNCHANGED vars
    BY <2>11 DEF Ended
  <2> QED
    BY <2>1, <2>2, <2>3, <2>4, <2>5, <2>6, <2>7, <2>8, <2>9, <2>10, <2>11
    DEF Next, ReadPreferences
<1> QED  BY <1>1, <1>2, TableInvariant, PTL DEF Spec

(* Without preferences the debug flag is asked for when there are none.    *)
LEMMA FlagFound ==
  ASSUME TableInv, ContentInv, pc = "parse"
  PROVE  (HasText(Text(config_node)) /\ ParseInt(Text(config_node)) # 0) <=> DebugAsked
<1>1. Text(config_node) = IF HasSection /\ init_data.radacdebug.kind # "missing"
                          THEN init_data.radacdebug ELSE Other("missing")
  BY TextFound DEF ContentInv
<1>2. init_data.form \notin {"none", "blank", "tooLarge"}
  BY DEF ContentInv
<1>3. ~HasText(Other("missing"))
  BY DEF HasText, Other
<1>4. CASE HasSection /\ init_data.radacdebug.kind # "missing"
  BY <1>1, <1>2, <1>4 DEF DebugAsked
<1>5. CASE ~(HasSection /\ init_data.radacdebug.kind # "missing")
  <2>1. ~DebugAsked
    BY <1>2, <1>5 DEF DebugAsked, HasText
  <2> QED  BY <1>1, <1>3, <1>5, <2>1
<1> QED  BY <1>4, <1>5

(* The debug flag is the one asked for from the moment it is parsed.       *)
LEMMA FlagInvariant == Spec => []FlagInv
<1>1. Init => FlagInv
  BY DEF Init, FlagInv
<1>2. TableInv /\ ContentInv /\ FlagInv /\ [Next]_vars => FlagInv'
  <2> SUFFICES ASSUME TableInv, ContentInv, FlagInv, [Next]_vars PROVE FlagInv'
    OBVIOUS
  <2>0. DebugAsked' <=> DebugAsked
    BY DEF Next, BoincInit, SetInitData, WithoutInitData, ReadPreferences,
           ReadProjectPreferences, GetRadacdebug, ParseRadacdebug, GetRuntime, CopyRuntime,
           ReleaseRuntimeNode, SetQuota, ReleaseConfigNode, ReleaseConfigHandle,
           GetGmcComSettings, ApplyDebugOverrides, Ended, DebugAsked, HasSection
  <2>1. CASE ParseRadacdebug
    <3>1. debug_enabled' <=> DebugAsked
      BY <2>1, FlagFound DEF ParseRadacdebug
    <3> QED  BY <2>0, <3>1 DEF FlagInv
  <2>2. CASE WithoutInitData
    <3>1. debug_enabled' <=> DebugAsked
      BY <2>2 DEF WithoutInitData, ContentInv, DebugAsked
    <3> QED  BY <2>0, <3>1 DEF FlagInv
  <2>3. CASE BoincInit \/ SetInitData \/ ReadProjectPreferences \/ GetRadacdebug
    BY <2>3 DEF BoincInit, SetInitData, ReadProjectPreferences, GetRadacdebug, FlagInv
  <2>4. CASE GetRuntime \/ CopyRuntime \/ ReleaseRuntimeNode \/ SetQuota
    <3>1. debug_enabled' = debug_enabled /\ pc \in {"runtime", "copy", "drop", "quota"}
      BY <2>4 DEF GetRuntime, CopyRuntime, ReleaseRuntimeNode, SetQuota
    <3> QED  BY <2>0, <3>1 DEF FlagInv
  <2>5. CASE ReleaseConfigNode \/ ReleaseConfigHandle \/ GetGmcComSettings
             \/ ApplyDebugOverrides
    <3>1. /\ debug_enabled' = debug_enabled
          /\ pc \in {"dropNode", "dropHandle", "settings", "overrides"}
      BY <2>5 DEF ReleaseConfigNode, ReleaseConfigHandle, GetGmcComSettings,
                  ApplyDebugOverrides
    <3> QED  BY <2>0, <3>1 DEF FlagInv
  <2>6. CASE Ended \/ UNCHANGED vars
    <3>1. debug_enabled' = debug_enabled /\ pc' = pc
      BY <2>6 DEF Ended
    <3> QED  BY <2>0, <3>1 DEF FlagInv
  <2> QED  BY <2>1, <2>2, <2>3, <2>4, <2>5, <2>6 DEF Next, ReadPreferences
<1> QED  BY <1>1, <1>2, TableInvariant, ContentInvariant, PTL DEF Spec

(* The quota is the default until it is set from the runtime asked for.    *)
LEMMA QuotaInvariant == Spec => []QuotaInv
<1>1. Init => QuotaInv
  BY DEF Init, QuotaInv
<1>2. TableInv /\ ContentInv /\ QuotaInv /\ [Next]_vars => QuotaInv'
  <2> SUFFICES ASSUME TableInv, ContentInv, QuotaInv, [Next]_vars PROVE QuotaInv'
    OBVIOUS
  <2>0. QuotasAsked' = QuotasAsked
    BY DEF Next, BoincInit, SetInitData, WithoutInitData, ReadPreferences,
           ReadProjectPreferences, GetRadacdebug, ParseRadacdebug, GetRuntime, CopyRuntime,
           ReleaseRuntimeNode, SetQuota, ReleaseConfigNode, ReleaseConfigHandle,
           GetGmcComSettings, ApplyDebugOverrides, Ended, QuotasAsked, HasSection
  <2>1. CASE SetQuota
    <3>1. Text(config_node) = IF HasSection /\ init_data.runtime.kind # "missing"
                              THEN init_data.runtime ELSE Other("missing")
      BY <2>1, TextFound DEF SetQuota, ContentInv
    <3>2. /\ num_samples = DefaultNumSamples /\ pc' = "dropNode"
          /\ num_samples' \in IF HasText(Text(config_node))
                              THEN QuotasOf(ParseInt(Text(config_node)))
                              ELSE {num_samples}
      BY <2>1 DEF SetQuota, QuotaInv
    <3>3. num_samples' \in QuotasForText(Text(config_node))
      BY <3>2 DEF QuotasForText
    <3>4. QuotasForText(Text(config_node)) = QuotasAsked
      <4>1. CASE HasSection /\ init_data.runtime.kind # "missing"
        BY <3>1, <4>1 DEF QuotasAsked
      <4>2. CASE ~(HasSection /\ init_data.runtime.kind # "missing")
        BY <3>1, <4>2 DEF QuotasAsked, QuotasForText, HasText, Other
      <4> QED  BY <4>1, <4>2
    <3> QED  BY <2>0, <3>2, <3>3, <3>4 DEF QuotaInv
  <2>2. CASE WithoutInitData
    <3>1. ~HasSection
      BY <2>2 DEF WithoutInitData, ContentInv, HasSection
    <3>2. num_samples' = DefaultNumSamples /\ pc' = "settings"
      BY <2>2 DEF WithoutInitData, QuotaInv
    <3>3. QuotasAsked = {DefaultNumSamples}
      BY <3>1 DEF QuotasAsked
    <3> QED  BY <2>0, <3>2, <3>3 DEF QuotaInv
  <2>3. CASE BoincInit \/ SetInitData \/ ReadProjectPreferences \/ GetRadacdebug
    BY <2>3 DEF BoincInit, SetInitData, ReadProjectPreferences, GetRadacdebug, QuotaInv
  <2>4. CASE ParseRadacdebug \/ GetRuntime \/ CopyRuntime \/ ReleaseRuntimeNode
    BY <2>4 DEF ParseRadacdebug, GetRuntime, CopyRuntime, ReleaseRuntimeNode, QuotaInv
  <2>5. CASE ReleaseConfigNode \/ ReleaseConfigHandle \/ GetGmcComSettings
             \/ ApplyDebugOverrides
    <3>1. /\ num_samples' = num_samples
          /\ pc \in {"dropNode", "dropHandle", "settings", "overrides"}
          /\ pc' \in {"dropHandle", "settings", "overrides", "ready", "refused"}
      BY <2>5 DEF ReleaseConfigNode, ReleaseConfigHandle, GetGmcComSettings,
                  ApplyDebugOverrides
    <3> QED  BY <2>0, <3>1 DEF QuotaInv
  <2>6. CASE Ended \/ UNCHANGED vars
    <3>1. num_samples' = num_samples /\ pc' = pc
      BY <2>6 DEF Ended
    <3> QED  BY <2>0, <3>1 DEF QuotaInv
  <2> QED  BY <2>1, <2>2, <2>3, <2>4, <2>5, <2>6 DEF Next, ReadPreferences
<1> QED  BY <1>1, <1>2, TableInvariant, ContentInvariant, PTL DEF Spec

(* The flag is a Boolean at all times.                                     *)
LEMMA FlagType == Spec => [](debug_enabled \in BOOLEAN)
<1>1. Init => debug_enabled \in BOOLEAN
  BY DEF Init
<1>2. debug_enabled \in BOOLEAN /\ [Next]_vars => (debug_enabled \in BOOLEAN)'
  <2> SUFFICES ASSUME debug_enabled \in BOOLEAN, [Next]_vars
               PROVE  debug_enabled' \in BOOLEAN
    OBVIOUS
  <2>1. CASE ParseRadacdebug \/ WithoutInitData
    BY <2>1 DEF ParseRadacdebug, WithoutInitData
  <2>2. CASE ~(ParseRadacdebug \/ WithoutInitData)
    <3>1. debug_enabled' = debug_enabled
      BY <2>2 DEF Next, BoincInit, SetInitData, ReadPreferences, ReadProjectPreferences,
           GetRadacdebug, GetRuntime, CopyRuntime, ReleaseRuntimeNode, SetQuota,
           ReleaseConfigNode, ReleaseConfigHandle, GetGmcComSettings, ApplyDebugOverrides,
           Ended
    <3> QED  BY <3>1
  <2> QED  BY <2>1, <2>2
<1> QED  BY <1>1, <1>2, PTL DEF Spec

(* The debug flag and the quota are those of the preferences, for every    *)
(* stack word and every text.                                              *)
THEOREM PrefsAreMatched == Spec => []PrefsMatch
<1>1. debug_enabled \in BOOLEAN /\ FlagInv /\ QuotaInv => PrefsMatch
  <2> SUFFICES ASSUME debug_enabled \in BOOLEAN, FlagInv, QuotaInv,
                      pc \in {"settings", "overrides", "ready"}
               PROVE  debug_enabled = DebugAsked /\ num_samples \in QuotasAsked
    BY DEF PrefsMatch
  <2>1. DebugAsked \in BOOLEAN
    BY DEF DebugAsked
  <2>2. debug_enabled <=> DebugAsked
    BY DEF FlagInv
  <2>3. debug_enabled = DebugAsked
    BY <2>1, <2>2, Zenon
  <2>4. num_samples \in QuotasAsked
    BY DEF QuotaInv
  <2> QED  BY <2>3, <2>4
<1> QED  BY <1>1, FlagType, FlagInvariant, QuotaInvariant, PTL

-----------------------------------------------------------------------------
(* The quota in numbers.                                                   *)

(* What a division leaves out is less than one more of the divisor.        *)
LEMMA DivisionFacts ==
  ASSUME NEW a \in Int, NEW b \in Nat \ {0}
  PROVE  /\ a \div b \in Int /\ (a \div b) * b <= a /\ a < (a \div b + 1) * b
         /\ a >= b => a \div b >= 1
  OBVIOUS

(* The quota of a number of seconds is at least one sample.                *)
LEMMA QuotaPositive ==
  ASSUME NEW sec \in Int
  PROVE  Quota(sec) \in Nat \ {0}
  BY QuotaAssumption, DivisionFacts DEF Quota

(* What strtol and the conversion to int make of a text is an integer.     *)
LEMMA ParseIntType ==
  ASSUME NEW t \in Texts
  PROVE  ParseInt(t) \in Int
<1>1. StrToL(t) \in Int
  BY WidthAssumption DEF StrToL, Texts
<1>2. 2 * IntHalf \in Nat \ {0} /\ IntHalf \in Int
  BY WidthAssumption
<1>3. ASSUME NEW v \in Int, NEW m \in Nat \ {0} PROVE v % m \in Int
  OBVIOUS
<1>4. (StrToL(t) + IntHalf) % (2 * IntHalf) \in Int
  BY <1>1, <1>2, <1>3
<1> QED  BY <1>2, <1>4 DEF ParseInt, ToInt

(* Of a sum that does not overflow there is one quota.                     *)
LEMMA QuotaExact ==
  ASSUME NEW minutes \in Int,
         InInt(minutes * SecondsPerMinute), InInt(minutes * SecondsPerMinute - RuntimeBuffer)
  PROVE  QuotasOf(minutes) = {Quota(minutes * SecondsPerMinute - RuntimeBuffer)}
  BY DEF QuotasOf

(* Short of overflow the quota is the most that fits, or the one sample a  *)
(* task is never without.                                                  *)
THEOREM QuotaFits == Spec => []QuotaFitsRuntime
<1>1. ContentInv /\ QuotaInv => QuotaFitsRuntime
  <2> DEFINE minutes == ParseInt(init_data.runtime)
             available == minutes * SecondsPerMinute - RuntimeBuffer
  <2> SUFFICES ASSUME ContentInv, QuotaInv, pc = "ready", HasSection,
                      HasText(init_data.runtime),
                      InInt(available + RuntimeBuffer), InInt(available)
               PROVE  /\ num_samples = 1 \/ num_samples * EffectiveSec <= available
                      /\ (num_samples + 1) * EffectiveSec > available
    BY DEF QuotaFitsRuntime
  <2>1. init_data.runtime \in Texts
    BY InputAssumption DEF ContentInv, HasSection, InitData, Other, Texts, Kinds
  <2>2. minutes \in Int
    BY <2>1, ParseIntType
  <2>3. num_samples \in QuotasOf(minutes)
    BY DEF QuotaInv, QuotasAsked, QuotasForText
  <2> HIDE DEF minutes
  <2>4. /\ minutes * SecondsPerMinute \in Int /\ available \in Int
        /\ available + RuntimeBuffer = minutes * SecondsPerMinute
    BY <2>2, QuotaAssumption
  <2>5. num_samples = Quota(available)
    BY <2>2, <2>3, <2>4, QuotaExact
  <2> HIDE DEF available
  <2>6. CASE available >= EffectiveSec
    <3>1. num_samples = available \div EffectiveSec
      BY <2>5, <2>6 DEF Quota
    <3> QED  BY <2>4, <3>1, DivisionFacts, QuotaAssumption
  <2>7. CASE available < EffectiveSec
    <3>1. num_samples = 1
      BY <2>4, <2>5, <2>7, QuotaAssumption DEF Quota
    <3> QED  BY <2>4, <2>7, <3>1, QuotaAssumption
  <2> QED  BY <2>4, <2>6, <2>7, QuotaAssumption
<1> QED  BY <1>1, ContentInvariant, QuotaInvariant, PTL

-----------------------------------------------------------------------------
(* The types and the settings of the port.                                 *)

SettingsSet == [port : 0..ComPortMax, baud : 1..BaudMax, bits : 5..8, parity : 0..2,
                stopbits : 1..2]

(* Whatever gmc.xml says, usable settings are in the ranges of the port.   *)
LEMMA SettingsInRange ==
  ASSUME NEW gmc, Usable(gmc)
  PROVE  Settings(gmc) \in SettingsSet
<1>1. ParseInt(gmc.portnumber) \in 0..ComPortMax
  BY DEF Usable, PortAccepted
<1>2. OptionalInt(gmc.baud, BaudDefault, 1, BaudMax) \in 1..BaudMax
  BY PortAssumption DEF OptionalInt
<1>3. OptionalInt(gmc.bits, 8, 5, 8) \in 5..8
  BY DEF OptionalInt
<1>4. ParityOf(gmc.parity) \in 0..2
  BY DEF ParityOf
<1>5. OptionalInt(gmc.stopbits, 1, 1, 2) \in 1..2
  BY DEF OptionalInt
<1> QED  BY <1>1, <1>2, <1>3, <1>4, <1>5 DEF Settings, SettingsSet

(* No quota is zero, however the arithmetic overflows.                     *)
LEMMA QuotasPositive ==
  ASSUME NEW minutes \in Int
  PROVE  QuotasOf(minutes) \subseteq Nat \ {0}
<1> DEFINE sec == minutes * SecondsPerMinute - RuntimeBuffer
<1>1. sec \in Int
  BY QuotaAssumption
<1> HIDE DEF sec
<1>2. 2 * IntHalf \in Nat \ {0} /\ IntHalf \in Int
  BY WidthAssumption
<1>3. ASSUME NEW v \in Int, NEW m \in Nat \ {0} PROVE v % m \in Int
  OBVIOUS
<1>4. ToInt(sec) \in Int
  <2>1. (sec + IntHalf) % (2 * IntHalf) \in Int
    BY <1>1, <1>2, <1>3
  <2> QED  BY <1>2, <2>1 DEF ToInt
<1>5. Quota(sec) \in Nat \ {0} /\ Quota(ToInt(sec)) \in Nat \ {0}
  BY <1>1, <1>4, QuotaPositive
<1>6. QuotasOf(minutes) \subseteq {Quota(ToInt(sec)), Quota(sec), 1}
  BY DEF QuotasOf, sec
<1> QED  BY <1>5, <1>6

SettingsInv ==
    /\ pc \in {"main", "init", "read", "debug", "parse", "runtime", "copy", "drop",
               "quota", "dropNode", "dropHandle", "settings", "overrides", "ready",
               "refused", "failed"}
    /\ num_samples \in Nat \ {0}
    /\ retry_count_max \in {RetryCount, RetryCountDebug}
    /\ gmc_xml \in GmcXml \cup {NoFile}
    /\ settings \in SettingsSet

(* Every step keeps the types of what start-up hands on.                   *)
LEMMA SettingsInvariant == Spec => []SettingsInv
<1>1. Init => SettingsInv
  <2>1. NoSettings \in SettingsSet
    BY PortAssumption DEF NoSettings, SettingsSet
  <2> QED  BY <2>1, QuotaAssumption DEF Init, SettingsInv
<1>2. TableInv /\ ContentInv /\ SettingsInv /\ [Next]_vars => SettingsInv'
  <2> SUFFICES ASSUME TableInv, ContentInv, SettingsInv, [Next]_vars PROVE SettingsInv'
    OBVIOUS
  <2> USE DEF SettingsInv
  <2>1. CASE SetQuota
    <3>1. Text(config_node) = IF HasSection /\ init_data.runtime.kind # "missing"
                              THEN init_data.runtime ELSE Other("missing")
      BY <2>1, TextFound DEF SetQuota, ContentInv
    <3>2. HasText(Text(config_node)) => Text(config_node) \in Texts
      BY <3>1, InputAssumption
      DEF ContentInv, HasSection, InitData, HasText, Other, Texts, Kinds
    <3>3. num_samples' \in IF HasText(Text(config_node))
                          THEN QuotasOf(ParseInt(Text(config_node))) ELSE {num_samples}
      BY <2>1 DEF SetQuota
    <3>4. num_samples' \in Nat \ {0}
      BY <3>2, <3>3, ParseIntType, QuotasPositive
    <3> QED  BY <2>1, <3>4 DEF SetQuota
  <2>2. CASE GetGmcComSettings
    BY <2>2, SettingsInRange DEF GetGmcComSettings
  <2>3. CASE ApplyDebugOverrides
    BY <2>3 DEF ApplyDebugOverrides
  <2>4. CASE BoincInit \/ SetInitData \/ WithoutInitData \/ ReadProjectPreferences
    BY <2>4 DEF BoincInit, SetInitData, WithoutInitData, ReadProjectPreferences
  <2>5. CASE GetRadacdebug \/ ParseRadacdebug \/ GetRuntime \/ CopyRuntime
    BY <2>5 DEF GetRadacdebug, ParseRadacdebug, GetRuntime, CopyRuntime
  <2>6. CASE ReleaseRuntimeNode \/ ReleaseConfigNode \/ ReleaseConfigHandle
    BY <2>6 DEF ReleaseRuntimeNode, ReleaseConfigNode, ReleaseConfigHandle
  <2>7. CASE Ended \/ UNCHANGED vars
    BY <2>7 DEF Ended
  <2> QED  BY <2>1, <2>2, <2>3, <2>4, <2>5, <2>6, <2>7 DEF Next, ReadPreferences
<1> QED  BY <1>1, <1>2, TableInvariant, ContentInvariant, PTL DEF Spec

(* The port gets the settings that were read or their defaults; what       *)
(* serial_open would take instead is never reached.                        *)
THEOREM SettingsAreReached == Spec => []SettingsReachPort
<1>1. SettingsInv => SettingsReachPort
  <2> SUFFICES ASSUME settings \in SettingsSet
               PROVE  PortOptions(settings) = [character_size |-> settings.bits,
                                               parity |-> settings.parity,
                                               stop_bits |-> settings.stopbits]
    BY DEF SettingsInv, SettingsReachPort
  <2>1. settings.bits \in 5..8 /\ settings.parity \in 0..2 /\ settings.stopbits \in 1..2
    BY DEF SettingsSet
  <2> QED  BY <2>1 DEF PortOptions
<1> QED  BY <1>1, SettingsInvariant, PTL

(* The client's buffer is full or not: a flag.                             *)
LEMMA LengthType == Spec => [](init_data_len \in BOOLEAN)
<1>1. Init => init_data_len \in BOOLEAN
  BY DEF Init
<1>2. init_data_len \in BOOLEAN /\ [Next]_vars => (init_data_len \in BOOLEAN)'
  <2> SUFFICES ASSUME init_data_len \in BOOLEAN, [Next]_vars
               PROVE  init_data_len' \in BOOLEAN
    OBVIOUS
  <2>1. CASE SetInitData
    BY <2>1 DEF SetInitData
  <2>2. CASE ~SetInitData
    <3>1. init_data_len' = init_data_len
      BY <2>2 DEF Next, BoincInit, WithoutInitData, ReadPreferences, ReadProjectPreferences,
           GetRadacdebug, ParseRadacdebug, GetRuntime, CopyRuntime, ReleaseRuntimeNode,
           SetQuota, ReleaseConfigNode, ReleaseConfigHandle, GetGmcComSettings,
           ApplyDebugOverrides, Ended
    <3> QED  BY <3>1
  <2> QED  BY <2>1, <2>2
<1> QED  BY <1>1, <1>2, PTL DEF Spec

(* Every variable keeps its type: no quota is zero, no setting leaves the  *)
(* range of the port.                                                      *)
THEOREM TypeCorrect == Spec => []TypeOK
<1>1. /\ TableInv /\ ContentInv /\ SettingsInv
      /\ debug_enabled \in BOOLEAN /\ init_data_len \in BOOLEAN
      => TypeOK
  BY DEF TableInv, ContentInv, SettingsInv, SettingsSet, TypeOK
<1> QED
  BY <1>1, TableInvariant, ContentInvariant, SettingsInvariant, FlagType, LengthType, PTL
=============================================================================
