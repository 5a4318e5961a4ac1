--------------------------- MODULE SessionOptions ---------------------------
(***************************************************************************)
(* The option setters of LibSSH::Session: a Ruby value is checked,         *)
(* converted to a C value and handed to ssh_options_set by address;        *)
(* libssh reads it with the width it expects of the option.                *)
(*                                                                         *)
(* Setters with the same code are one action over a set of options.        *)
(***************************************************************************)
EXTENDS Integers, Sequences, FiniteSets

CONSTANTS
    StringOptions, ListOptions, IntOptions, LongOptions, FlagOptions,
    Texts,     \* strings
    NulTexts,  \* those with a NUL byte inside
    Integer,   \* Ruby integers
    Member,    \* those in arrays
    IntMax,    \* the largest C int,
    LongMax,   \* and the largest Fixnum, which a C long holds
    FileText,  \* a text in a configuration file
    FileSets,  \* the sets of options a configuration file may have
    MaxCalls,  \* calls of setters at most
    Unset      \* libssh's default

ASSUME OptionsAssumption ==
    /\ StringOptions \subseteq {"host", "user", "bindaddr", "knownhosts", "proxycommand",
                                "gssapi_client_identity", "gssapi_server_identity"}
    /\ ListOptions \subseteq {"key_exchange", "hostkeys"}
    /\ IntOptions \subseteq {"port", "compression_level"}
    /\ LongOptions \subseteq {"timeout", "timeout_usec"}
    /\ FlagOptions \subseteq {"stricthostkeycheck", "gssapi_delegate_credentials"}
ASSUME ValuesAssumption ==
    /\ NulTexts \subseteq Texts
    /\ Member \subseteq Integer /\ Integer \subseteq Int
    /\ IntMax \in Nat \ {0} /\ LongMax \in Nat /\ IntMax < LongMax
Option == StringOptions \cup ListOptions \cup IntOptions \cup LongOptions \cup FlagOptions
          \cup {"compression", "log_verbosity", "ssh1", "ssh2", "identity"}

ASSUME CallsAssumption == MaxCalls \in Nat
ASSUME FilesAssumption == FileSets \subseteq SUBSET Option

FitsInt(i)  == -IntMax - 1 <= i /\ i <= IntMax
FitsLong(i) == -LongMax - 1 <= i /\ i <= LongMax

\* Ruby values: nil, booleans, integers, strings, arrays of at most two, and
\* symbols, by their place in Verbosity or behind it.
Verbosity == <<"none", "warn", "info", "debug", "trace">>

Nothing  == [type : {"nil"}, val : {FALSE}]
Booleans == [type : {"boolean"}, val : BOOLEAN]
Integers == [type : {"integer"}, val : Integer]
Strings  == [type : {"string"}, val : Texts]
Symbols  == [type : {"symbol"}, val : 1..(Len(Verbosity) + 1)]
Element  == [type : {"integer"}, val : Member] \cup Strings
Arrays   == [type : {"array"}, val : UNION {[1..k -> Element] : k \in 0..2}]

\* Call(v) for a value of any type.
ForAny(Call(_)) ==
    \/ \E v \in Nothing : Call(v)
    \/ \E v \in Booleans : Call(v)
    \/ \E v \in Integers : Call(v)
    \/ \E v \in Strings : Call(v)
    \/ \E v \in Symbols : Call(v)
    \/ \E v \in Arrays : Call(v)

Elements(array) == {array[i] : i \in DOMAIN array}

VARIABLES
    options,  \* options[o]: what libssh has stored
    last,     \* the last call: the options it sets, its value and its result
    calls     \* how many there were

vars == <<options, last, calls>>

Result == {"nil", "true", "false", "TypeError", "ArgumentError", "RangeError", "LibSSH::Error"}

TypeOK ==
    /\ DOMAIN options = Option
    /\ \A o \in IntOptions \cup FlagOptions : options[o] = Unset \/ FitsInt(options[o])
    /\ \A o \in LongOptions : options[o] = Unset \/ FitsLong(options[o])
    /\ \A o \in {"ssh1", "ssh2"} : options[o] = Unset \/ options[o] \in {0, 1}
    /\ last.sets \subseteq Option /\ last.result \in Result
    /\ calls \in 0..MaxCalls

Init ==
    /\ options = [o \in Option |-> IF o = "identity" THEN <<>> ELSE Unset]
    /\ last = [sets |-> {}, value |-> [type |-> "nil", val |-> FALSE], result |-> "nil"]
    /\ calls = 0

-----------------------------------------------------------------------------
Return(sets, v, result) ==
    /\ calls < MaxCalls /\ calls' = calls + 1
    /\ last' = [sets |-> sets, value |-> v, result |-> result]

Raise(sets, v, class) == Return(sets, v, class) /\ UNCHANGED options

\* A C variable whose address is passed.
CInt(i)  == [width |-> "int", val |-> i]
CLong(i) == [width |-> "long", val |-> i]

Width(o) == IF o \in LongOptions THEN "long" ELSE "int"

\* What libssh can find there when it reads the option: behind an int that it
\* takes for a long lies something else.
ReadAs(o, c) ==
    IF Width(o) = "long" /\ c.width = "int"
    THEN {i \in (-LongMax - 1)..LongMax : i % (IntMax + 1) = c.val % (IntMax + 1)}
    ELSE {c.val}

\* ssh_options_set, with RAISE_IF_ERROR: libssh may refuse the value.
OptionsSet(o, v, stored) ==
    \/ \E s \in stored : options' = [options EXCEPT ![o] = s]
       /\ Return({o}, v, "nil")
    \/ Raise({o}, v, "LibSSH::Error")

\* set_string_option; StringValueCStr refuses what C would cut.
SetString(o, v) ==
    \/ v.type # "string" /\ Raise({o}, v, "TypeError")
    \/ v.type = "string" /\ v.val \in NulTexts /\ Raise({o}, v, "ArgumentError")
    \/ v.type = "string" /\ v.val \notin NulTexts /\ OptionsSet(o, v, {v.val})

\* rb_ary_join: a list for libssh, whatever its elements are.
SetCommaSeparated(o, v) ==
    \/ v.type # "array" /\ Raise({o}, v, "TypeError")
    \/ /\ v.type = "array"
       /\ LET texts == [i \in DOMAIN v.val |-> v.val[i].val] IN
          IF \E e \in Elements(v.val) : e.type = "string" /\ e.val \in NulTexts
          THEN Raise({o}, v, "ArgumentError")
          ELSE OptionsSet(o, v, {texts})

\* Check_Type(i, T_FIXNUM); a larger integer is another type.
NotFixnum(v) == ~(v.type = "integer" /\ FitsLong(v.val))

\* set_int_option: FIX2INT raises what an int cannot hold.
SetInt(o, v) ==
    \/ NotFixnum(v) /\ Raise({o}, v, "TypeError")
    \/ ~NotFixnum(v) /\ ~FitsInt(v.val) /\ Raise({o}, v, "RangeError")
    \/ ~NotFixnum(v) /\ FitsInt(v.val) /\ OptionsSet(o, v, ReadAs(o, CInt(v.val)))

\* set_long_option
SetLong(o, v) ==
    \/ NotFixnum(v) /\ Raise({o}, v, "TypeError")
    \/ ~NotFixnum(v) /\ OptionsSet(o, v, ReadAs(o, CLong(v.val)))

\* RTEST(enable) ? 1 : 0
Truth(v) == IF v.type \in {"nil", "boolean"} /\ ~v.val THEN 0 ELSE 1

SetFlag(o, v) == OptionsSet(o, v, ReadAs(o, CInt(Truth(v))))

\* Booleans are names of libssh's; the rest is a string option.
SetCompression(v) ==
    \/ v.type = "boolean" /\ OptionsSet("compression", v, {IF v.val THEN "yes" ELSE "no"})
    \/ v.type # "boolean" /\ SetString("compression", v)

SetLogVerbosity(v) ==
    \/ v.type # "symbol" /\ Raise({"log_verbosity"}, v, "TypeError")
    \/ /\ v.type = "symbol" /\ v.val \notin DOMAIN Verbosity
       /\ Raise({"log_verbosity"}, v, "ArgumentError")
    \/ /\ v.type = "symbol" /\ v.val \in DOMAIN Verbosity
       /\ OptionsSet("log_verbosity", v, {v.val - 1})

Protocols == {"ssh1", "ssh2"}

Bit(b) == IF b THEN 1 ELSE 0

\* Of the elements only the first bad one matters, and the array is read
\* before anything is set.
BadProtocol(e) ==
    CASE NotFixnum(e)                          -> "TypeError"
      [] ~NotFixnum(e) /\ ~FitsInt(e.val)        -> "RangeError"
      [] ~NotFixnum(e) /\ FitsInt(e.val)
                       /\ e.val \notin {1, 2}  -> "ArgumentError"
      [] OTHER                                 -> "none"

\* Variant of Flag: the elements are counted.
FlagCounting(p, array) == Cardinality({i \in DOMAIN array : array[i].val = p})

\* ssh1 or ssh2: whether the array has its number.
Flag(p, array) == Bit([type |-> "integer", val |-> p] \in Elements(array))

\* The two calls of ssh_options_set, each with RAISE_IF_ERROR: libssh may refuse
\* the first flag, or the second one when the first is stored.
StoreProtocols(v) ==
    \/ /\ options' = [options EXCEPT !["ssh1"] = Flag(1, v.val), !["ssh2"] = Flag(2, v.val)]
       /\ Return(Protocols, v, "nil")
    \/ Raise(Protocols, v, "LibSSH::Error")
    \/ /\ options' = [options EXCEPT !["ssh1"] = Flag(1, v.val)]
       /\ Return(Protocols, v, "LibSSH::Error")

\* Variants of SetProtocol: every element is set when it is reached; what was
\* allowed before stays allowed.
SetProtocolAtOnce(v) ==
    \/ v.type # "array" /\ Raise(Protocols, v, "TypeError")
    \/ /\ v.type = "array"
       /\ LET bad == {i \in DOMAIN v.val : BadProtocol(v.val[i]) # "none"}
              good == [i \in {i \in DOMAIN v.val : \A j \in bad : i < j} |-> v.val[i]] IN
          /\ options' = [options EXCEPT !["ssh1"] = Flag(1, good), !["ssh2"] = Flag(2, good)]
          /\ Return(Protocols, v, IF bad = {} THEN "nil" ELSE "ArgumentError")

SetProtocolAdding(v) ==
    /\ v.type = "array"
    /\ \A e \in Elements(v.val) : BadProtocol(e) = "none"
    /\ options' = [o \in Option |->
          IF o \in Protocols /\ [type |-> "integer", val |-> IF o = "ssh1" THEN 1 ELSE 2]
                                \in Elements(v.val)
          THEN 1 ELSE options[o]]
    /\ Return(Protocols, v, "nil")

SetProtocol(v) ==
    \/ v.type # "array" /\ Raise(Protocols, v, "TypeError")
    \/ /\ v.type = "array"
       /\ \E i \in DOMAIN v.val :
             /\ BadProtocol(v.val[i]) # "none"
             /\ \A j \in 1..(i - 1) : BadProtocol(v.val[j]) = "none"
             /\ Raise(Protocols, v, BadProtocol(v.val[i]))
    \/ /\ v.type = "array"
       /\ \A e \in Elements(v.val) : BadProtocol(e) = "none"
       /\ StoreProtocols(v)

\* add_identity: libssh puts a new one in front.
AddIdentity(v) ==
    \/ v.type # "string" /\ Raise({"identity"}, v, "TypeError")
    \/ v.type = "string" /\ v.val \in NulTexts /\ Raise({"identity"}, v, "ArgumentError")
    \/ /\ v.type = "string" /\ v.val \notin NulTexts
       /\ OptionsSet("identity", v, {<<v.val>> \o options["identity"]})

\* What a file has for an option: a text, or a number the option can hold; its
\* identity is put in front.
FromFile(o, number) ==
    CASE o = "identity" -> <<FileText>> \o options["identity"]
      [] o \in StringOptions \cup ListOptions \cup {"compression"} -> FileText
      [] OTHER -> number

\* parse_config(path = nil): the result says whether libssh could parse the
\* file; a part of it may be in effect if it could not.
ParseConfig(v) ==
    \/ v.type \notin {"nil", "string"} /\ Raise(Option, v, "TypeError")
    \/ v.type = "string" /\ v.val \in NulTexts /\ Raise(Option, v, "ArgumentError")
    \/ /\ v.type = "nil" \/ (v.type = "string" /\ v.val \notin NulTexts)
       /\ \E inFile \in FileSets, number \in {0, 1} :
             options' = [o \in Option |-> IF o \in inFile THEN FromFile(o, number)
                                         ELSE options[o]]
       /\ \E result \in {"true", "false"} : Return(Option, v, result)

-----------------------------------------------------------------------------
Next ==
    \/ \E o \in StringOptions : ForAny(LAMBDA v : SetString(o, v))
    \/ \E o \in ListOptions : ForAny(LAMBDA v : SetCommaSeparated(o, v))
    \/ \E o \in IntOptions : ForAny(LAMBDA v : SetInt(o, v))
    \/ \E o \in LongOptions : ForAny(LAMBDA v : SetLong(o, v))
    \/ \E o \in FlagOptions : ForAny(LAMBDA v : SetFlag(o, v))
    \/ ForAny(SetCompression)
    \/ ForAny(SetLogVerbosity)
    \/ ForAny(SetProtocol)
    \/ ForAny(AddIdentity)
    \/ ForAny(ParseConfig)
    \/ calls = MaxCalls /\ UNCHANGED vars

Spec == Init /\ [][Next]_vars

-----------------------------------------------------------------------------
(* Properties.                                                             *)

\* What a value means for an option: integers through the width of the option,
\* lists and texts whole, of protocol= exactly the members of the array.
Meaning(o, v) ==
    CASE o \in {"ssh1", "ssh2"} ->
             Bit(\E e \in Elements(v.val) : e.val = IF o = "ssh1" THEN 1 ELSE 2)
      [] o \in FlagOptions -> IF v.type \in {"nil", "boolean"} THEN Bit(v.val) ELSE 1
      [] o \in ListOptions -> [i \in DOMAIN v.val |-> v.val[i].val]
      [] o = "log_verbosity" -> v.val - 1
      [] o = "compression" /\ v.type = "boolean" -> IF v.val THEN "yes" ELSE "no"
      [] OTHER -> v.val

\* What a setter was given is what libssh has, whatever was allowed before.
SetMeansStored ==
    last.result = "nil" =>
        \A o \in last.sets :
            Meaning(o, last.value) = IF o = "identity" THEN Head(options[o]) ELSE options[o]

\* The one way to raise with something stored: protocol= makes two calls, and
\* libssh refuses the second.
HalfStored(o) ==
    /\ last.sets = Protocols /\ last.result = "LibSSH::Error"
    /\ o = "ssh1" /\ options[o] = Meaning(o, last.value)

\* A setter that raises leaves every option as it was, although the value of
\* protocol= is an array whose bad element may come last and although it sets
\* two options, unless libssh itself refuses the second of these; one that
\* returns has touched no option but its own.
RefusedChangesNothing ==
    [][\A o \in Option :
          options'[o] # options[o] =>
              \/ last'.result \in {"nil", "true", "false"} /\ o \in last'.sets
              \/ HalfStored(o)']_vars
=============================================================================
