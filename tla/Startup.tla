------------------------------- MODULE Startup -------------------------------
(***************************************************************************)
(* From main() to the slot directory: boinc_init and the project           *)
(* preferences the client gives (recovered/main.cpp), the preferences read *)
(* through the table of config handles (recovered/config.cpp), and the     *)
(* port settings of gmc.xml.  MainApp starts where this module ends.       *)
(*                                                                         *)
(* A handle is an index into a table of shared pointers to elements of the *)
(* parsed document; index 0 is the empty element.  A slot is an int that   *)
(* holds a handle; the slot runtime_node starts with any value at all.     *)
(***************************************************************************)
EXTENDS Preferences, Sequences

CONSTANTS
    PrefTexts, RuntimeTexts,   \* texts of the elements radacdebug and runtime
    GmcXml,                    \* files gmc.xml, of GmcFiles
    StackWords,                \* what an int may hold that nothing was assigned to
    RetryCount, RetryCountDebug

ASSUME InputAssumption ==
    /\ PrefTexts \subseteq Texts /\ RuntimeTexts \subseteq Texts
    /\ GmcXml \subseteq GmcFiles
    /\ StackWords \subseteq Int
    /\ RetryCount \in Nat /\ RetryCountDebug \in Nat

VARIABLES
    pc,
    init_data,            \* what the client has for this task
    init_data_len,        \* TRUE when g_init_data_len is positive
    table,                \* table[h + 1] is what handle h refers to
    config_handle, config_node, runtime_node,
    debug_enabled, num_samples, retry_count_max,
    gmc_xml, settings     \* the file read, and the settings got from it

slotVars == <<config_handle, config_node, runtime_node>>
prefVars == <<debug_enabled, num_samples, retry_count_max>>
comVars == <<gmc_xml, settings>>
vars == <<pc, init_data, init_data_len, table, slotVars, prefVars, comVars>>

(* none: the client has none; blank: no character; tooLarge: more than the *)
(* buffer; garbled: no XML; foreign: XML without the section.              *)
Forms == {"none", "blank", "tooLarge", "garbled", "foreign"}
InitData ==
    [form : {"section"}, radacdebug : PrefTexts, runtime : RuntimeTexts]
    \cup [form : Forms, radacdebug : {Other("missing")}, runtime : {Other("missing")}]
Entries == {"null", "empty", "section", "radacdebug", "runtime"}
NoSettings == [port |-> 0, baud |-> BaudDefault, bits |-> 8, parity |-> 0, stopbits |-> 1]
NoFile == [file |-> "unread", portnumber |-> Other("missing"), baud |-> Other("missing"),
           bits |-> Other("missing"), parity |-> Other("missing"),
           stopbits |-> Other("missing")]

TypeOK ==
    /\ pc \in {"main", "init", "read", "debug", "parse", "runtime", "copy", "drop",
               "quota", "dropNode", "dropHandle", "settings", "overrides", "ready",
               "refused", "failed"}
    /\ init_data \in InitData /\ init_data_len \in BOOLEAN
    /\ table \in Seq(Entries)
    /\ config_handle \in Nat /\ config_node \in Nat /\ runtime_node \in Int
    /\ debug_enabled \in BOOLEAN /\ num_samples \in Nat \ {0}
    /\ retry_count_max \in {RetryCount, RetryCountDebug}
    /\ gmc_xml \in GmcXml \cup {NoFile}
    /\ settings \in [port : 0..ComPortMax, baud : 1..BaudMax, bits : 5..8, parity : 0..2,
                     stopbits : 1..2]

Init ==
    /\ pc = "main"
    /\ init_data \in InitData /\ init_data_len = FALSE
    /\ table = <<"empty">>
    /\ config_handle = 0 /\ config_node = 0 /\ runtime_node \in StackWords
    /\ debug_enabled = FALSE /\ num_samples = DefaultNumSamples
    /\ retry_count_max = RetryCount
    /\ gmc_xml = NoFile /\ settings = NoSettings

-----------------------------------------------------------------------------
(* The table of handles.                                                   *)

Valid(t, h) == h \in 0..Len(t) - 1 /\ t[h + 1] # "null"
(* ptr_from_handle: a handle that refers to nothing refers to the empty one. *)
Deref(h) == IF Valid(table, h) THEN table[h + 1] ELSE "empty"

Freed(t, h) == IF h \in 1..Len(t) - 1 THEN [t EXCEPT ![h + 1] = "null"] ELSE t

(* The handle of the entry a store appends is the length before it.        *)
LastHandle(t) == Len(t) - 1
NewHandle(t) == Len(t)

(* store_handle: what the slot referred to is let go, whatever it was.     *)
Stored(t, slot, entry) == Append(Freed(t, slot), entry)
(* ref_assign_inc and get_config_int: the source is looked up first.       *)
CopiedKeepingOld(t, dest, src) == Append(t, t[(IF Valid(t, src) THEN src ELSE 0) + 1])
Copied(t, dest, src) ==
    LET freed == Freed(t, dest)
    IN  Append(freed, freed[(IF Valid(t, src) THEN src ELSE 0) + 1])

Text(h) == IF Deref(h) \in {"radacdebug", "runtime"} THEN init_data[Deref(h)]
           ELSE Other("missing")
(* get_config_value: the child of that name, or the empty element.         *)
Child(key) ==
    IF Deref(config_handle) = "section" /\ init_data[key].kind # "missing"
       THEN key ELSE "empty"

-----------------------------------------------------------------------------
(* main().                                                                 *)

BoincInit ==
    /\ pc = "main" /\ pc' \in {"init", "failed"}
    /\ UNCHANGED <<init_data, init_data_len, table, slotVars, prefVars, comVars>>

(* The buffer holds the preferences as they are, or stays empty.           *)
SetInitData ==
    /\ pc = "init" /\ pc' = "read"
    /\ init_data_len' = (init_data.form \notin {"none", "blank", "tooLarge"})
    /\ UNCHANGED <<init_data, table, slotVars, prefVars, comVars>>

-----------------------------------------------------------------------------
(* init_prefs_from_init_data, one call of the config API at a time.        *)

WithoutInitData ==
    /\ pc = "read" /\ ~init_data_len /\ pc' = "settings"
    /\ debug_enabled' = TRUE
    /\ UNCHANGED <<init_data, init_data_len, table, slotVars, num_samples,
                   retry_count_max, comVars>>

(* A section is stored in a slot of the call's own, copied to the caller's *)
(* and let go; anything else gives the empty element.                      *)
ReadProjectPreferences ==
    /\ pc = "read" /\ init_data_len /\ pc' = "debug"
    /\ IF init_data.form = "section"
          THEN LET temp == NewHandle(table)
                   stored == Stored(table, 0, "section")
               IN  /\ table' = Freed(Copied(stored, config_handle, temp), temp)
                   /\ config_handle' = NewHandle(stored)
          ELSE /\ table' = Copied(table, config_handle, 0)
               /\ config_handle' = NewHandle(table)
    /\ UNCHANGED <<init_data, init_data_len, config_node, runtime_node, prefVars, comVars>>

GetRadacdebug ==
    /\ pc = "debug" /\ pc' = "parse"
    /\ table' = Stored(table, config_node, Child("radacdebug"))
    /\ config_node' = NewHandle(table)
    /\ UNCHANGED <<init_data, init_data_len, config_handle, runtime_node, prefVars, comVars>>

ParseRadacdebug ==
    /\ pc = "parse" /\ pc' = "runtime"
    /\ debug_enabled' = (HasText(Text(config_node)) /\ ParseInt(Text(config_node)) # 0)
    /\ UNCHANGED <<init_data, init_data_len, table, slotVars, num_samples,
                   retry_count_max, comVars>>

GetRuntime ==
    /\ pc = "runtime" /\ pc' = "copy"
    /\ table' = Stored(table, runtime_node, Child("runtime"))
    /\ runtime_node' = NewHandle(table)
    /\ UNCHANGED <<init_data, init_data_len, config_handle, config_node, prefVars, comVars>>

CopyRuntime ==
    /\ pc = "copy" /\ pc' = "drop"
    /\ table' = Copied(table, config_node, runtime_node)
    /\ config_node' = NewHandle(table)
    /\ UNCHANGED <<init_data, init_data_len, config_handle, runtime_node, prefVars, comVars>>

ReleaseRuntimeNode ==
    /\ pc = "drop" /\ pc' = "quota"
    /\ table' = Freed(table, runtime_node) /\ runtime_node' = 0
    /\ UNCHANGED <<init_data, init_data_len, config_handle, config_node, prefVars, comVars>>

SetQuota ==
    /\ pc = "quota" /\ pc' = "dropNode"
    /\ num_samples' \in IF HasText(Text(config_node))
                        THEN QuotasOf(ParseInt(Text(config_node))) ELSE {num_samples}
    /\ UNCHANGED <<init_data, init_data_len, table, slotVars, debug_enabled,
                   retry_count_max, comVars>>

ReleaseConfigNode ==
    /\ pc = "dropNode" /\ pc' = "dropHandle"
    /\ table' = Freed(table, config_node) /\ config_node' = 0
    /\ UNCHANGED <<init_data, init_data_len, config_handle, runtime_node, prefVars, comVars>>

ReleaseConfigHandle ==
    /\ pc = "dropHandle" /\ pc' = "settings"
    /\ table' = Freed(table, config_handle) /\ config_handle' = 0
    /\ UNCHANGED <<init_data, init_data_len, config_node, runtime_node, prefVars, comVars>>

-----------------------------------------------------------------------------
(* get_gmc_com_settings and apply_debug_overrides.                         *)

GetGmcComSettings ==
    /\ pc = "settings" /\ gmc_xml' \in GmcXml
    /\ IF Usable(gmc_xml')
          THEN pc' = "overrides" /\ settings' = Settings(gmc_xml')
          ELSE pc' = "refused" /\ UNCHANGED settings
    /\ UNCHANGED <<init_data, init_data_len, table, slotVars, prefVars>>

ApplyDebugOverrides ==
    /\ pc = "overrides" /\ pc' = "ready"
    /\ retry_count_max' = IF debug_enabled THEN RetryCountDebug ELSE retry_count_max
    /\ UNCHANGED <<init_data, init_data_len, table, slotVars, debug_enabled, num_samples,
                   comVars>>

Ended == pc \in {"ready", "refused", "failed"} /\ UNCHANGED vars

ReadPreferences == ReadProjectPreferences \/ GetRadacdebug \/ ParseRadacdebug \/ GetRuntime
                   \/ CopyRuntime \/ ReleaseRuntimeNode \/ SetQuota \/ ReleaseConfigNode
                   \/ ReleaseConfigHandle
Next == BoincInit \/ SetInitData \/ WithoutInitData \/ ReadPreferences
        \/ GetGmcComSettings \/ ApplyDebugOverrides \/ Ended

Spec == Init /\ [][Next]_vars

-----------------------------------------------------------------------------
(* What must hold.                                                         *)

HasSection == init_data.form = "section"
DebugAsked ==
    \/ init_data.form \in {"none", "blank", "tooLarge"}
    \/ /\ HasSection /\ HasText(init_data.radacdebug)
       /\ ParseInt(init_data.radacdebug) # 0
QuotasAsked == IF HasSection THEN QuotasForText(init_data.runtime) ELSE {DefaultNumSamples}

(* The debug flag and the quota are those of the preferences' own texts,   *)
(* whatever handle the stack word of runtime_node happens to let go when   *)
(* the runtime is looked up.                                               *)
PrefsMatch ==
    pc \in {"settings", "overrides", "ready"} =>
        debug_enabled = DebugAsked /\ num_samples \in QuotasAsked

(* When the preferences have been read no entry holds on to the document,  *)
(* and the empty element is still there for the next lookup.               *)
DocumentFreed ==
    pc \in {"settings", "overrides", "ready"} =>
        table[1] = "empty" /\ \A i \in 2..Len(table) : table[i] = "null"

(* Unless the arithmetic overflows or one sample is too many already, the  *)
(* quota is the largest that fits into the runtime less the buffer.        *)
QuotaFitsRuntime ==
    pc = "ready" /\ init_data_len /\ HasSection /\ HasText(init_data.runtime) =>
        LET available == ParseInt(init_data.runtime) * SecondsPerMinute - RuntimeBuffer
        IN  InInt(available + RuntimeBuffer) /\ InInt(available) =>
               /\ num_samples = 1 \/ num_samples * EffectiveSec <= available
               /\ (num_samples + 1) * EffectiveSec > available

(* serial_open puts on the port what gmc.xml says or get_gmc_com_settings  *)
(* has for a default: it never needs a default of its own.                 *)
SettingsReachPort ==
    pc = "ready" =>
        PortOptions(settings) = [character_size |-> settings.bits,
                                 parity |-> settings.parity,
                                 stop_bits |-> settings.stopbits]

(* docs/phase2-config.md:39 "Required; missing or invalid value causes the *)
(* app to exit with an error": a portnumber taken is the number written.   *)
InvalidPortRefused ==
    pc = "ready" => gmc_xml.portnumber = Number(settings.port)
=============================================================================
