----------------------------- MODULE Preferences -----------------------------
(***************************************************************************)
(* What the texts of a user's files become: parse_int_cstr and the quota   *)
(* of recovered/main_app.cpp, and the port settings that                   *)
(* get_gmc_com_settings (recovered/config.cpp) reads from gmc.xml and      *)
(* serial_open (recovered/serial_port.cpp) puts on the port.               *)
(*                                                                         *)
(* The text of an element is the number strtol reads at its front, as a    *)
(* mathematical integer, or no number, or nothing; an element may be       *)
(* missing.  The widths of int and long are parameters.                    *)
(***************************************************************************)
EXTENDS Integers

CONSTANTS
    IntHalf,             \* an int is in -IntHalf..IntHalf-1
    LongHalf,            \* a long is in -LongHalf..LongHalf-1
    SecondsPerMinute,    \* gmc::SECONDS_PER_MINUTE
    RuntimeBuffer,       \* gmc::RUNTIME_BUFFER_SEC
    EffectiveSec,        \* gmc::EFFECTIVE_SEC_PER_SAMPLE
    DefaultNumSamples,   \* gmc::DEFAULT_NUM_SAMPLES
    ComPortMax,          \* gmc::COM_PORT_MAX
    BaudMax, BaudDefault \* 921600 and gmc::COM_BAUD_DEFAULT

ASSUME WidthAssumption ==
    /\ IntHalf \in Nat \ {0} /\ LongHalf \in Nat /\ LongHalf >= IntHalf
ASSUME QuotaAssumption ==
    /\ SecondsPerMinute \in Nat \ {0} /\ RuntimeBuffer \in Nat
    /\ EffectiveSec \in Nat \ {0} /\ DefaultNumSamples \in Nat \ {0}
ASSUME PortAssumption ==
    /\ ComPortMax \in Nat /\ BaudMax \in Nat /\ BaudDefault \in 1..BaudMax

Kinds == {"missing", "empty", "word", "number"}
Texts == [kind : Kinds, n : Int]
Number(n) == [kind |-> "number", n |-> n]
Other(kind) == [kind |-> kind, n |-> 0]
HasText(t) == t.kind \in {"word", "number"}

-----------------------------------------------------------------------------
(* Numbers.                                                                *)

InInt(v) == -IntHalf <= v /\ v < IntHalf
(* What a conversion to int keeps of a wider integer.                      *)
ToInt(v) == ((v + IntHalf) % (2 * IntHalf)) - IntHalf

StrToL(t) ==
    IF t.kind # "number" THEN 0
    ELSE IF t.n >= LongHalf THEN LongHalf - 1
    ELSE IF t.n < -LongHalf THEN -LongHalf ELSE t.n

ParseInt(t) == ToInt(StrToL(t))

-----------------------------------------------------------------------------
(* The quota of a runtime preference in minutes.                           *)

QuotaRoundedUp(sec) == IF sec > 0 THEN sec \div EffectiveSec + 1 ELSE 1
Quota(sec) == IF sec >= EffectiveSec THEN sec \div EffectiveSec ELSE 1

(* The product and the difference of ints may overflow: the quotas of the  *)
(* sum wrapped around, of the exact sum, and of none available are left.   *)
QuotasOf(minutes) ==
    LET sec == minutes * SecondsPerMinute - RuntimeBuffer
    IN  IF InInt(minutes * SecondsPerMinute) /\ InInt(sec) THEN {Quota(sec)}
        ELSE {Quota(ToInt(sec)), Quota(sec), 1}

QuotasForText(t) == IF HasText(t) THEN QuotasOf(ParseInt(t)) ELSE {DefaultNumSamples}

-----------------------------------------------------------------------------
(* The settings of the port.                                               *)

(* gmc.xml: how far it can be read, and the texts below comsettings.       *)
GmcFiles == [file : {"unreadable", "noGmc", "noComsettings", "whole"},
             portnumber : Texts, baud : Texts, bits : Texts, parity : Texts,
             stopbits : Texts]

OptionalAny(t, default, low, high) == IF HasText(t) THEN StrToL(t) ELSE default
OptionalInt(t, default, low, high) ==
    IF HasText(t) /\ StrToL(t) \in low..high THEN StrToL(t) ELSE default

(* The text's first letter, as the number of a word: n, o and e.           *)
ParityOf(t) == IF t.kind = "word" /\ t.n \in 0..2 THEN t.n ELSE 0

PortOneMore(t) == HasText(t) /\ ParseInt(t) \in 0..ComPortMax + 1
PortAccepted(t) == HasText(t) /\ ParseInt(t) \in 0..ComPortMax

Usable(gmc) == gmc.file = "whole" /\ PortAccepted(gmc.portnumber)

Settings(gmc) ==
    [port |-> ParseInt(gmc.portnumber),
     baud |-> OptionalInt(gmc.baud, BaudDefault, 1, BaudMax),
     bits |-> OptionalInt(gmc.bits, 8, 5, 8),
     parity |-> ParityOf(gmc.parity),
     stopbits |-> OptionalInt(gmc.stopbits, 1, 1, 2)]

(* serial_open takes what it does not know for a default of its own.       *)
PortOptions(settings) ==
    [character_size |-> IF settings.bits \in 5..8 THEN settings.bits ELSE 8,
     parity |-> IF settings.parity \in 1..2 THEN settings.parity ELSE 0,
     stop_bits |-> IF settings.stopbits = 2 THEN 2 ELSE 1]
=============================================================================
