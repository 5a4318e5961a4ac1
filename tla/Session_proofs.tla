--------------------------- MODULE Session_proofs ---------------------------
(* Proofs about what a session is given and what it gives: SessionOptions,   *)
(* for any options, values and widths of an int and a long, and Key, for any *)
(* number of objects and of server keys.                                     *)
EXTENDS SessionOptions, Key, TLAPS, SequenceTheorems

\* The classes a setter raises.
Errors == {"TypeError", "ArgumentError", "RangeError", "LibSSH::Error"}

\* A value a program may pass, and what is known of it.
Value(v) ==
    v \in Nothing \/ v \in Booleans \/ v \in Integers \/ v \in Strings \/ v \in Symbols
    \/ v \in Arrays

Typed(v) ==
    /\ v.type \in {"nil", "boolean", "integer", "string", "symbol", "array"}
    /\ v.type \in {"nil", "boolean"} => v.val \in BOOLEAN
    /\ v.type = "integer" => v.val \in Int
    /\ v.type = "string" => v.val \in Texts
    /\ v.type = "symbol" => v.val \in Int
    /\ v.type = "array" => \A i \in DOMAIN v.val : v.val[i] \in Element

LEMMA Values == ASSUME NEW v, Value(v) PROVE Typed(v)
<1>1. CASE v \in Nothing \/ v \in Booleans \/ v \in Strings
  BY <1>1 DEF Nothing, Booleans, Strings, Typed
<1>2. CASE v \in Integers
  BY <1>2, ValuesAssumption DEF Integers, Typed
<1>3. CASE v \in Symbols
  BY <1>3 DEF Symbols, Typed
<1>4. CASE v \in Arrays
  <2>1. v.type = "array" /\ v.val \in UNION {[1..k -> Element] : k \in 0..2}
    BY <1>4 DEF Arrays
  <2>2. PICK k \in 0..2 : v.val \in [1..k -> Element]
    BY <2>1
  <2> QED
    BY <2>1, <2>2 DEF Typed
<1> QED
  BY <1>1, <1>2, <1>3, <1>4 DEF Value

\* A member of an array.
LEMMA Members ==
    ASSUME NEW e \in Element
    PROVE  /\ e.type = "integer" => e.val \in Int /\ e = [type |-> "integer", val |-> e.val]
           /\ e.type = "string" => e.val \in Texts
           /\ e.type \in {"integer", "string"}
  BY ValuesAssumption DEF Element, Strings

Call(v) ==
    \/ \E o \in StringOptions : SetString(o, v)
    \/ \E o \in ListOptions : SetCommaSeparated(o, v)
    \/ \E o \in IntOptions : SetInt(o, v)
    \/ \E o \in LongOptions : SetLong(o, v)
    \/ \E o \in FlagOptions : SetFlag(o, v)
    \/ SetCompression(v) \/ SetLogVerbosity(v) \/ SetProtocol(v)
    \/ AddIdentity(v) \/ ParseConfig(v)

LEMMA OneCall == Next => (\E v : Value(v) /\ Call(v)) \/ UNCHANGED vars
  BY DEF Next, ForAny, Call, Value

\* What the width of an option demands of a value.
Fits(o, x) ==
    /\ o \in IntOptions \cup FlagOptions => FitsInt(x)
    /\ o \in LongOptions => FitsLong(x)

\* What a call can do: raise and leave the options alone; store the meaning of its
\* value in one option, both protocols or the list of identities; raise with the first
\* of the two protocols stored; read a file.
Refused(v) ==
    /\ UNCHANGED options
    /\ \E S \in SUBSET Option, r \in Errors :
          last' = [sets |-> S, value |-> v, result |-> r]

Stored(v) ==
    \E o \in Option : \E x :
       /\ options' = [options EXCEPT ![o] = x]
       /\ last' = [sets |-> {o}, value |-> v, result |-> "nil"]
       /\ o \notin Protocols
       /\ IF o = "identity"
          THEN v.val \in Texts /\ x = <<v.val>> \o options["identity"]
          ELSE x = Meaning(o, v) /\ Fits(o, x)

StoredBoth(v) ==
    /\ options' = [options EXCEPT !["ssh1"] = Meaning("ssh1", v), !["ssh2"] = Meaning("ssh2", v)]
    /\ last' = [sets |-> Protocols, value |-> v, result |-> "nil"]

StoredFirst(v) ==
    /\ options' = [options EXCEPT !["ssh1"] = Meaning("ssh1", v)]
    /\ last' = [sets |-> Protocols, value |-> v, result |-> "LibSSH::Error"]

Parsed(v) ==
    \E inFile \in FileSets, number \in {0, 1}, r \in {"true", "false"} :
       /\ options' = [o \in Option |-> IF o \in inFile THEN FromFile(o, number) ELSE options[o]]
       /\ last' = [sets |-> Option, value |-> v, result |-> r]

Effect(v) ==
    /\ Refused(v) \/ Stored(v) \/ StoredBoth(v) \/ StoredFirst(v) \/ Parsed(v)
    /\ calls < MaxCalls /\ calls' = calls + 1

\* The kinds of options are apart.
LEMMA Kinds ==
    /\ StringOptions \cap (ListOptions \cup IntOptions \cup LongOptions \cup FlagOptions) = {}
    /\ ListOptions \cap (IntOptions \cup LongOptions \cup FlagOptions) = {}
    /\ IntOptions \cap (LongOptions \cup FlagOptions) = {}
    /\ LongOptions \cap FlagOptions = {}
    /\ (StringOptions \cup ListOptions \cup IntOptions \cup LongOptions \cup FlagOptions)
          \cap {"compression", "log_verbosity", "ssh1", "ssh2", "identity"} = {}
  BY OptionsAssumption

LEMMA RaiseEffect ==
    ASSUME NEW v, NEW S \in SUBSET Option, NEW r \in Errors, Raise(S, v, r)
    PROVE  Effect(v)
  BY DEF Raise, Return, Effect, Refused

\* ssh_options_set on a value that means what was given and fits.
LEMMA SetEffect ==
    ASSUME NEW v, NEW o \in Option, o \notin Protocols \cup {"identity"},
           NEW stored, OptionsSet(o, v, stored),
           \A x \in stored : x = Meaning(o, v) /\ Fits(o, x)
    PROVE  Effect(v)
<1>1. CASE Raise({o}, v, "LibSSH::Error")
  BY <1>1, RaiseEffect DEF Errors
<1>2. CASE \E s \in stored : options' = [options EXCEPT ![o] = s] /\ Return({o}, v, "nil")
  <2>1. PICK s \in stored : options' = [options EXCEPT ![o] = s] /\ Return({o}, v, "nil")
    BY <1>2
  <2>2. Stored(v)
    BY <2>1 DEF Stored, Return
  <2> QED
    BY <2>1, <2>2 DEF Effect, Return
<1> QED
  BY <1>1, <1>2 DEF OptionsSet

LEMMA SetStringEffect ==
    ASSUME NEW v, NEW o \in StringOptions \cup {"compression"}, SetString(o, v)
    PROVE  Effect(v)
<1>1. o \in Option /\ o \notin Protocols \cup {"identity"}
  BY Kinds DEF Option, Protocols
<1>2. CASE \E r \in Errors : Raise({o}, v, r)
  BY <1>1, <1>2, RaiseEffect
<1>3. CASE v.type = "string" /\ OptionsSet(o, v, {v.val})
  <2>1. v.val = Meaning(o, v) /\ Fits(o, v.val)
    BY <1>3, Kinds DEF Meaning, Fits
  <2> QED
    BY <1>1, <1>3, <2>1, SetEffect
<1> QED
  BY <1>2, <1>3 DEF SetString, Errors

LEMMA SetCommaSeparatedEffect ==
    ASSUME NEW v, NEW o \in ListOptions, SetCommaSeparated(o, v)
    PROVE  Effect(v)
<1>1. o \in Option /\ o \notin Protocols \cup {"identity"}
  BY Kinds DEF Option, Protocols
<1>2. CASE \E r \in Errors : Raise({o}, v, r)
  BY <1>1, <1>2, RaiseEffect
<1> DEFINE texts == [i \in DOMAIN v.val |-> v.val[i].val]
<1>3. CASE OptionsSet(o, v, {texts})
  <2>1. texts = Meaning(o, v) /\ Fits(o, texts)
    BY Kinds DEF Meaning, Fits
  <2> QED
    BY <1>1, <1>3, <2>1, SetEffect
<1> QED
  BY <1>2, <1>3 DEF SetCommaSeparated, Errors

LEMMA SetIntEffect ==
    ASSUME NEW v, NEW o \in IntOptions, SetInt(o, v)
    PROVE  Effect(v)
<1>1. o \in Option /\ o \notin Protocols \cup {"identity"}
  BY Kinds DEF Option, Protocols
<1>2. CASE \E r \in Errors : Raise({o}, v, r)
  BY <1>1, <1>2, RaiseEffect
<1>3. CASE FitsInt(v.val) /\ OptionsSet(o, v, ReadAs(o, CInt(v.val)))
  <2>1. ReadAs(o, CInt(v.val)) = {v.val}
    BY Kinds DEF ReadAs, CInt, Width
  <2>2. v.val = Meaning(o, v) /\ Fits(o, v.val)
    BY <1>3, Kinds DEF Meaning, Fits
  <2> QED
    BY <1>1, <1>3, <2>1, <2>2, SetEffect
<1> QED
  BY <1>2, <1>3 DEF SetInt, Errors

LEMMA SetLongEffect ==
    ASSUME NEW v, NEW o \in LongOptions, SetLong(o, v)
    PROVE  Effect(v)
<1>1. o \in Option /\ o \notin Protocols \cup {"identity"}
  BY Kinds DEF Option, Protocols
<1>2. CASE \E r \in Errors : Raise({o}, v, r)
  BY <1>1, <1>2, RaiseEffect
<1>3. CASE FitsLong(v.val) /\ OptionsSet(o, v, ReadAs(o, CLong(v.val)))
  <2>1. ReadAs(o, CLong(v.val)) = {v.val}
    BY DEF ReadAs, CLong, Width
  <2>2. v.val = Meaning(o, v) /\ Fits(o, v.val)
    BY <1>3, Kinds DEF Meaning, Fits
  <2> QED
    BY <1>1, <1>3, <2>1, <2>2, SetEffect
<1> QED
  BY <1>2, <1>3 DEF SetLong, NotFixnum, Errors

LEMMA SetFlagEffect ==
    ASSUME NEW v, Typed(v), NEW o \in FlagOptions, SetFlag(o, v)
    PROVE  Effect(v)
<1>1. o \in Option /\ o \notin Protocols \cup {"identity"}
  BY Kinds DEF Option, Protocols
<1>2. ReadAs(o, CInt(Truth(v))) = {Truth(v)}
  BY Kinds DEF ReadAs, CInt, Width
<1>3. Truth(v) = Meaning(o, v)
  BY Kinds DEF Truth, Meaning, Bit, Typed
<1>4. Fits(o, Truth(v))
  <2>1. FitsInt(0) /\ FitsInt(1)
    BY ValuesAssumption DEF FitsInt
  <2> QED
    BY <2>1, Kinds DEF Fits, Truth
<1> QED
  BY <1>1, <1>2, <1>3, <1>4, SetEffect DEF SetFlag

LEMMA SetCompressionEffect ==
    ASSUME NEW v, SetCompression(v)
    PROVE  Effect(v)
<1>1. CASE v.type = "boolean" /\ OptionsSet("compression", v, {IF v.val THEN "yes" ELSE "no"})
  <2> DEFINE x == IF v.val THEN "yes" ELSE "no"
  <2>1. "compression" \in Option /\ "compression" \notin Protocols \cup {"identity"}
    BY DEF Option, Protocols
  <2>2. x = Meaning("compression", v) /\ Fits("compression", x)
    BY <1>1, Kinds DEF Meaning, Fits
  <2> QED
    BY <1>1, <2>1, <2>2, SetEffect
<1> QED
  BY <1>1, SetStringEffect DEF SetCompression

LEMMA SetLogVerbosityEffect ==
    ASSUME NEW v, SetLogVerbosity(v)
    PROVE  Effect(v)
<1>1. "log_verbosity" \in Option /\ "log_verbosity" \notin Protocols \cup {"identity"}
  BY DEF Option, Protocols
<1>2. CASE \E r \in Errors : Raise({"log_verbosity"}, v, r)
  BY <1>1, <1>2, RaiseEffect
<1>3. CASE OptionsSet("log_verbosity", v, {v.val - 1})
  <2>1. v.val - 1 = Meaning("log_verbosity", v) /\ Fits("log_verbosity", v.val - 1)
    BY Kinds DEF Meaning, Fits
  <2> QED
    BY <1>1, <1>3, <2>1, SetEffect
<1> QED
  BY <1>2, <1>3 DEF SetLogVerbosity, Errors

\* The members of an array without a bad one are the integers 1 and 2.
LEMMA Good ==
    ASSUME NEW e \in Element, BadProtocol(e) = "none"
    PROVE  /\ e.type = "integer" /\ e.val \in {1, 2}
           /\ e = [type |-> "integer", val |-> e.val]
  BY Members DEF BadProtocol, NotFixnum

LEMMA SetProtocolEffect ==
    ASSUME NEW v, Typed(v), SetProtocol(v)
    PROVE  Effect(v)
<1>1. Protocols \in SUBSET Option
  BY DEF Option, Protocols
<1>2. CASE \E r \in Errors : Raise(Protocols, v, r)
  BY <1>1, <1>2, RaiseEffect
<1>3. CASE /\ v.type = "array" /\ \A e \in Elements(v.val) : BadProtocol(e) = "none"
           /\ StoreProtocols(v)
  <2>1. \A e \in Elements(v.val) : e \in Element
    BY <1>3 DEF Elements, Typed
  <2>2. \A e \in Elements(v.val) : e = [type |-> "integer", val |-> e.val]
    BY <1>3, <2>1, Good
  <2>3. ASSUME NEW p \in {1, 2}
        PROVE  [type |-> "integer", val |-> p] \in Elements(v.val)
               <=> \E e \in Elements(v.val) : e.val = p
    BY <2>2
  <2>4. /\ Meaning("ssh1", v) = Bit([type |-> "integer", val |-> 1] \in Elements(v.val))
        /\ Meaning("ssh2", v) = Bit([type |-> "integer", val |-> 2] \in Elements(v.val))
    BY <2>3, Kinds DEF Meaning, Bit
  <2>5. CASE Raise(Protocols, v, "LibSSH::Error")
    BY <1>1, <2>5, RaiseEffect DEF Errors
  <2>6. CASE StoredBoth(v) /\ Return(Protocols, v, "nil")
    BY <2>6 DEF Effect, Return
  <2>7. CASE StoredFirst(v) /\ Return(Protocols, v, "LibSSH::Error")
    BY <2>7 DEF Effect, Return
  <2> QED
    BY <1>3, <2>4, <2>5, <2>6, <2>7
    DEF StoreProtocols, Flag, Return, StoredBoth, StoredFirst
<1>4. \A e : BadProtocol(e) \in Errors \cup {"none"}
  BY DEF BadProtocol, Errors
<1>5. "TypeError" \in Errors
  BY DEF Errors
<1> QED
  BY <1>2, <1>3, <1>4, <1>5 DEF SetProtocol

LEMMA AddIdentityEffect ==
    ASSUME NEW v, Typed(v), AddIdentity(v)
    PROVE  Effect(v)
<1>1. "identity" \in Option /\ "identity" \notin Protocols
  BY DEF Option, Protocols
<1>2. CASE \E r \in Errors : Raise({"identity"}, v, r)
  BY <1>1, <1>2, RaiseEffect
<1>3. CASE /\ v.type = "string"
           /\ options' = [options EXCEPT !["identity"] = <<v.val>> \o options["identity"]]
           /\ Return({"identity"}, v, "nil")
  <2>1. v.val \in Texts
    BY <1>3 DEF Typed
  <2>2. Stored(v)
    BY <1>1, <1>3, <2>1 DEF Stored, Return
  <2> QED
    BY <1>3, <2>2 DEF Effect, Return
<1> QED
  BY <1>2, <1>3 DEF AddIdentity, OptionsSet, Errors

LEMMA ParseConfigEffect ==
    ASSUME NEW v, ParseConfig(v)
    PROVE  Effect(v)
<1>1. CASE \E r \in Errors : Raise(Option, v, r)
  BY <1>1, RaiseEffect
<1>2. CASE /\ \E inFile \in FileSets, number \in {0, 1} :
                 options' = [o \in Option |-> IF o \in inFile THEN FromFile(o, number)
                                             ELSE options[o]]
           /\ \E result \in {"true", "false"} : Return(Option, v, result)
  BY <1>2 DEF Effect, Parsed, Return
<1> QED
  BY <1>1, <1>2 DEF ParseConfig, Errors

\* Every call raises and leaves the options alone, or does what it is to do.
LEMMA NextEffect == Next => (\E v : Value(v) /\ Effect(v)) \/ UNCHANGED vars
<1>1. ASSUME NEW v, Value(v), Call(v) PROVE Effect(v)
  <2>1. Typed(v)
    BY <1>1, Values
  <2> QED
    BY <1>1, <2>1, SetStringEffect, SetCommaSeparatedEffect, SetIntEffect, SetLongEffect,
       SetFlagEffect, SetCompressionEffect, SetLogVerbosityEffect, SetProtocolEffect,
       AddIdentityEffect, ParseConfigEffect DEF Call
<1> QED
  BY <1>1, OneCall

-----------------------------------------------------------------------------
(* The theorems about the setters.                                          *)

\* An identity, given by the program or by a configuration file.
Identity == Texts \cup {FileText}

IInv == TypeOK /\ options["identity"] \in Seq(Identity)

LEMMA InitInv == Init => IInv /\ SetMeansStored
<1> SUFFICES ASSUME Init PROVE IInv /\ SetMeansStored
  OBVIOUS
<1>1. "identity" \in Option /\ options["identity"] = <<>>
  BY DEF Init, Option
<1>2. \A o \in IntOptions \cup FlagOptions \cup LongOptions \cup {"ssh1", "ssh2"} :
          options[o] = Unset
  BY Kinds DEF Init, Option
<1>3. TypeOK
  BY <1>2, CallsAssumption DEF Init, TypeOK, Result
<1> QED
  BY <1>1, <1>3 DEF IInv, Init, SetMeansStored

\* A call that raises leaves the options as they were, one that returns sets
\* none but its own.
LEMMA EffectTouches ==
    ASSUME NEW v, Effect(v), NEW o \in Option, DOMAIN options = Option
    PROVE  options'[o] # options[o] =>
              \/ last'.result \in {"nil", "true", "false"} /\ o \in last'.sets
              \/ HalfStored(o)'
<1>1. CASE Refused(v)
  BY <1>1 DEF Refused
<1>2. CASE Stored(v)
  BY <1>2 DEF Stored
<1>3. CASE StoredBoth(v)
  BY <1>3 DEF StoredBoth, Protocols
<1>4. CASE Parsed(v)
  BY <1>4 DEF Parsed
<1>5. CASE StoredFirst(v)
  <2>1. o # "ssh1" => options'[o] = options[o]
    BY <1>5 DEF StoredFirst
  <2>2. o = "ssh1" => HalfStored(o)'
    BY <1>5 DEF StoredFirst, HalfStored, Meaning
  <2> QED
    BY <2>1, <2>2
<1> QED
  BY <1>1, <1>2, <1>3, <1>4, <1>5 DEF Effect

LEMMA EffectTyped == ASSUME IInv, NEW v, Effect(v) PROVE IInv'
<1>0. TypeOK /\ DOMAIN options = Option /\ options["identity"] \in Seq(Identity)
  BY DEF IInv, TypeOK
<1>1. calls' \in 0..MaxCalls
  BY <1>0, CallsAssumption DEF Effect, TypeOK
<1>2. last'.sets \subseteq Option /\ last'.result \in Result
  BY DEF Effect, Refused, Stored, StoredBoth, StoredFirst, Parsed, Errors, Result, Option,
         Protocols
<1>3. ASSUME NEW o \in Option, NEW x, o \notin Protocols, o = "identity" \/ Fits(o, x),
             options' = [options EXCEPT ![o] = x], o = "identity" => x \in Seq(Identity)
      PROVE  IInv'
  <2>1. \A p \in Option : options'[p] = IF p = o THEN x ELSE options[p]
    BY <1>0, <1>3
  <2>2. \A p \in IntOptions \cup FlagOptions \cup LongOptions \cup {"ssh1", "ssh2"} :
            p \in Option /\ p # "identity"
    BY Kinds DEF Option
  <2>3. \A p \in IntOptions \cup FlagOptions : options'[p] = Unset \/ FitsInt(options'[p])
    BY <1>0, <1>3, <2>1, <2>2 DEF TypeOK, Fits
  <2>4. \A p \in LongOptions : options'[p] = Unset \/ FitsLong(options'[p])
    BY <1>0, <1>3, <2>1, <2>2 DEF TypeOK, Fits
  <2>5. \A p \in {"ssh1", "ssh2"} : options'[p] = Unset \/ options'[p] \in {0, 1}
    BY <1>0, <1>3, <2>1, <2>2 DEF TypeOK, Protocols
  <2>6. DOMAIN options' = Option
    BY <1>0, <1>3
  <2>7. options'["identity"] \in Seq(Identity)
    BY <1>0, <1>3, <2>1 DEF Option
  <2> QED
    BY <1>1, <1>2, <2>3, <2>4, <2>5, <2>6, <2>7 DEF IInv, TypeOK, FitsInt, FitsLong
<1>4. CASE Refused(v)
  BY <1>0, <1>1, <1>2, <1>4 DEF Refused, IInv, TypeOK, FitsInt, FitsLong
<1>5. CASE Stored(v)
  <2>1. PICK o \in Option :
          \E x : /\ options' = [options EXCEPT ![o] = x]
                /\ o \notin Protocols
                /\ IF o = "identity"
                   THEN v.val \in Texts /\ x = <<v.val>> \o options["identity"]
                   ELSE x = Meaning(o, v) /\ Fits(o, x)
    BY <1>5 DEF Stored
  <2>2. PICK x : /\ options' = [options EXCEPT ![o] = x]
                 /\ o \notin Protocols
                 /\ IF o = "identity"
                    THEN v.val \in Texts /\ x = <<v.val>> \o options["identity"]
                    ELSE x = Meaning(o, v) /\ Fits(o, x)
    BY <2>1
  <2>3. o = "identity" => x \in Seq(Identity)
    <3>1. \A t \in Identity : <<t>> \o options["identity"] \in Seq(Identity)
      BY <1>0
    <3> QED
      BY <2>2, <3>1 DEF Identity
  <2> QED
    BY <1>3, <2>2, <2>3
<1>6. CASE StoredBoth(v) \/ StoredFirst(v)
  <2>1. Meaning("ssh1", v) \in {0, 1} /\ Meaning("ssh2", v) \in {0, 1}
    BY Kinds DEF Meaning, Bit
  <2>2. /\ DOMAIN options' = Option
        /\ options'["ssh1"] \in {0, 1} /\ options'["ssh2"] \in {options["ssh2"], 0, 1}
        /\ \A p \in Option \ Protocols : options'[p] = options[p]
    BY <1>0, <1>6, <2>1 DEF StoredBoth, StoredFirst, Protocols, Option
  <2>3. IntOptions \cup FlagOptions \cup LongOptions \cup {"identity"} \subseteq Option \ Protocols
    BY Kinds DEF Option, Protocols
  <2> QED
    BY <1>0, <1>1, <1>2, <2>2, <2>3 DEF IInv, TypeOK, FitsInt, FitsLong
<1>7. CASE Parsed(v)
  <2>1. PICK inFile \in FileSets, number \in {0, 1} :
            options' = [o \in Option |-> IF o \in inFile THEN FromFile(o, number) ELSE options[o]]
    BY <1>7 DEF Parsed
  <2>2. /\ DOMAIN options' = Option
        /\ \A p \in Option : options'[p] \in {options[p], FromFile(p, number)}
    BY <2>1
  <2>3. \A p \in IntOptions \cup FlagOptions \cup LongOptions \cup {"ssh1", "ssh2"} :
            p \in Option /\ FromFile(p, number) = number
    BY Kinds DEF FromFile, Option
  <2>4. FitsInt(number) /\ FitsLong(number)
    BY ValuesAssumption DEF FitsInt, FitsLong
  <2>5. options'["identity"] \in Seq(Identity)
    <3>1. FromFile("identity", number) = <<FileText>> \o options["identity"]
      BY Kinds DEF FromFile
    <3>2. \A t \in Identity : <<t>> \o options["identity"] \in Seq(Identity)
      BY <1>0
    <3> QED
      BY <1>0, <2>2, <3>1, <3>2 DEF Identity, Option
  <2>6. \A p \in IntOptions \cup FlagOptions \cup LongOptions \cup {"ssh1", "ssh2"} :
            options'[p] \in {options[p], number}
    BY <2>2, <2>3
  <2> QED
    BY <1>0, <1>1, <1>2, <2>2, <2>4, <2>5, <2>6 DEF IInv, TypeOK, FitsInt, FitsLong
<1> QED
  BY <1>4, <1>5, <1>6, <1>7 DEF Effect

LEMMA EffectStores == ASSUME IInv, NEW v, Effect(v) PROVE SetMeansStored'
<1>0. DOMAIN options = Option /\ options["identity"] \in Seq(Identity)
  BY DEF IInv, TypeOK
<1>1. CASE Refused(v) \/ StoredFirst(v) \/ Parsed(v)
  BY <1>1 DEF Refused, StoredFirst, Parsed, Errors, SetMeansStored
<1>2. CASE Stored(v)
  <2>1. PICK o \in Option :
          /\ last' = [sets |-> {o}, value |-> v, result |-> "nil"]
          /\ o = "identity" => v.val \in Texts /\ options'[o] = <<v.val>> \o options[o]
          /\ o # "identity" => options'[o] = Meaning(o, v)
    BY <1>0, <1>2 DEF Stored
  <2>2. ASSUME o = "identity" PROVE Meaning(o, v) = Head(options'[o])
    <3>1. \A t \in Identity : Head(<<t>> \o options["identity"]) = t
      BY <1>0
    <3>2. Meaning("identity", v) = v.val
      BY Kinds DEF Meaning
    <3> QED
      BY <2>1, <2>2, <3>1, <3>2 DEF Identity
  <2>3. Meaning(o, v) = IF o = "identity" THEN Head(options'[o]) ELSE options'[o]
    BY <2>1, <2>2
  <2>4. Meaning(o, v)' = Meaning(o, v)
    BY DEF Meaning
  <2> QED
    BY <2>1, <2>3 DEF SetMeansStored, Meaning
<1>3. CASE StoredBoth(v)
  <2>1. /\ options'["ssh1"] = Meaning("ssh1", v) /\ options'["ssh2"] = Meaning("ssh2", v)
        /\ last' = [sets |-> {"ssh1", "ssh2"}, value |-> v, result |-> "nil"]
    BY <1>0, <1>3 DEF StoredBoth, Protocols, Option
  <2> QED
    BY <2>1 DEF SetMeansStored, Meaning
<1> QED
  BY <1>1, <1>2, <1>3 DEF Effect

LEMMA NextInv ==
    IInv /\ SetMeansStored /\ [Next]_vars => IInv' /\ SetMeansStored'
<1> SUFFICES ASSUME IInv, SetMeansStored, [Next]_vars PROVE IInv' /\ SetMeansStored'
  OBVIOUS
<1>1. CASE UNCHANGED vars
  BY <1>1 DEF vars, IInv, TypeOK, FitsInt, FitsLong, SetMeansStored, Meaning
<1>2. CASE \E v : Effect(v)
  BY <1>2, EffectTyped, EffectStores
<1> QED
  BY <1>1, <1>2, NextEffect

\* Every option keeps to the width libssh reads it with, and every call has a
\* result the setters document.
THEOREM OptionsTyped == Spec => []TypeOK
<1>1. IInv => TypeOK
  BY DEF IInv
<1> QED
  BY InitInv, NextInv, <1>1, PTL DEF Spec

\* What a setter was given is what libssh has, for values of every Ruby type
\* and widths of an int and a long.
THEOREM SettersStore == Spec => []SetMeansStored
  BY InitInv, NextInv, PTL DEF Spec

\* A setter that raises leaves all options alone, protocol= too unless libssh refuses
\* the second of its two flags, with the first one stored; one that returns leaves
\* alone all but its own.
THEOREM RefusalsChangeNothing == Spec => RefusedChangesNothing
<1> DEFINE Kept == \A o \in Option :
        options'[o] # options[o] =>
            \/ last'.result \in {"nil", "true", "false"} /\ o \in last'.sets
            \/ HalfStored(o)'
<1>1. ASSUME IInv, [Next]_vars PROVE [Kept]_vars
  <2>1. CASE \E v : Effect(v)
    BY <1>1, <2>1, EffectTouches DEF IInv, TypeOK
  <2> QED
    BY <1>1, <2>1, NextEffect
<1> QED
  BY InitInv, NextInv, <1>1, PTL DEF Spec, RefusedChangesNothing

-----------------------------------------------------------------------------
(* Keys.                                                                    *)

\* Ownership from both sides: an object's ssh_key is there and its own, and a
\* ssh_key that is there has its object, or is one that initialize has forgotten.
Owned ==
    /\ \A o, p \in Objects : key[o] = key[p] /\ key[o] # NULL => o = p
    /\ \A o \in Objects : key[o] # NULL => o \in live /\ content[key[o]] # "free"
    /\ \A k \in SshKeys : content[k] # "free" => k \in forgotten \/ \E o \in live : key[o] = k
    /\ \A k \in forgotten : content[k] # "free"
    /\ \A o \in Objects : key[o] \notin forgotten

KeyInv == KeyTypeOK /\ Owned

LEMMA InitKeyInv == KeyInit => KeyInv
  BY NullAssumption DEF KeyInit, KeyInv, KeyTypeOK, Owned

\* An object gets another ssh_key, whatever is in it; the one it had is forgotten.
LEMMA NewKeyInv ==
    ASSUME KeyInv, NEW o \in Objects, NEW c \in {"empty"} \cup ServerKeys,
           NewSshKey(o, c), live' = live \cup {o}, UNCHANGED <<server, lastHash>>,
           forgotten' = forgotten \cup ({key[o]} \ {NULL})
    PROVE  KeyInv'
<1>1. PICK k \in SshKeys : /\ content[k] = "free"
                           /\ content' = [content EXCEPT ![k] = c]
                           /\ key' = [key EXCEPT ![o] = k]
  BY DEF NewSshKey
<1>2. c # "free" /\ k # NULL
  BY NullAssumption, ServerKeysAssumption
<1>3. KeyTypeOK'
  <2>1. forgotten' \subseteq SshKeys
    BY DEF KeyInv, KeyTypeOK
  <2> QED
    BY <1>1, <2>1 DEF KeyInv, KeyTypeOK
<1>4. /\ \A p \in Objects : key[p] # k
      /\ k \notin forgotten /\ k \notin forgotten'
  BY <1>1, <1>2 DEF KeyInv, Owned
<1>5. Owned'
  <2>1. \A p, q \in Objects : key'[p] = key'[q] /\ key'[p] # NULL => p = q
    BY <1>1, <1>4 DEF KeyInv, KeyTypeOK, Owned
  <2>2. \A p \in Objects : key'[p] # NULL => p \in live' /\ content'[key'[p]] # "free"
    BY <1>1, <1>2, <1>4 DEF KeyInv, KeyTypeOK, Owned
  <2>3. \A j \in SshKeys : content'[j] # "free" => j \in forgotten' \/ \E p \in live' : key'[p] = j
    <3> SUFFICES ASSUME NEW j \in SshKeys, content'[j] # "free", j \notin forgotten'
                 PROVE  \E p \in live' : key'[p] = j
      OBVIOUS
    <3>1. CASE j = k
      BY <1>1, <3>1 DEF KeyInv, KeyTypeOK
    <3>2. CASE j # k
      <4>1. PICK p \in live : key[p] = j
        BY <1>1, <3>2 DEF KeyInv, KeyTypeOK, Owned
      <4>2. p # o
        BY <4>1, NullAssumption
      <4> QED
        BY <1>1, <4>1, <4>2 DEF KeyInv, KeyTypeOK
    <3> QED
      BY <3>1, <3>2
  <2>4. \A j \in forgotten' : content'[j] # "free"
    <3> SUFFICES ASSUME NEW j \in forgotten' PROVE content[j] # "free" /\ j # k /\ j \in SshKeys
      BY <1>1 DEF KeyInv, KeyTypeOK
    <3> QED
      BY <1>3, <1>4 DEF KeyInv, KeyTypeOK, Owned
  <2>5. \A p \in Objects : key'[p] \notin forgotten'
    BY <1>1, <1>4 DEF KeyInv, KeyTypeOK, Owned
  <2> QED
    BY <2>1, <2>2, <2>3, <2>4, <2>5 DEF Owned
<1> QED
  BY <1>3, <1>5 DEF KeyInv

\* key_free gives back the ssh_key of its own object and of no other.
LEMMA FreeInv ==
    ASSUME KeyInv, NEW o \in Objects, Free(o)
    PROVE  KeyInv'
<1>1. KeyTypeOK'
  BY DEF KeyInv, KeyTypeOK, Free
<1>2. \A p, q \in Objects : key'[p] = key'[q] /\ key'[p] # NULL => p = q
  BY DEF KeyInv, KeyTypeOK, Owned, Free
<1>3. \A p \in Objects : key'[p] # NULL => p \in live' /\ content'[key'[p]] # "free"
  BY DEF KeyInv, KeyTypeOK, Owned, Free
<1>4. \A j \in SshKeys : content'[j] # "free" => j \in forgotten' \/ \E p \in live' : key'[p] = j
  <2> SUFFICES ASSUME NEW j \in SshKeys, content'[j] # "free", j \notin forgotten'
               PROVE  \E p \in live' : key'[p] = j
    OBVIOUS
  <2>1. content[j] # "free" /\ key[o] # j
    BY NullAssumption DEF KeyInv, KeyTypeOK, Free
  <2>2. PICK p \in live : key[p] = j
    BY <2>1 DEF KeyInv, Owned, Free
  <2>3. p \in live' /\ key'[p] = j
    BY <2>1, <2>2 DEF KeyInv, KeyTypeOK, Free
  <2> QED
    BY <2>3
<1>5. /\ \A j \in forgotten' : content'[j] # "free"
      /\ \A p \in Objects : key'[p] \notin forgotten'
  BY NullAssumption DEF KeyInv, KeyTypeOK, Owned, Free
<1> QED
  BY <1>1, <1>2, <1>3, <1>4, <1>5 DEF KeyInv, Owned

LEMMA NextKeyInv == KeyInv /\ [KeyNext]_keyVars => KeyInv'
<1> SUFFICES ASSUME KeyInv, [KeyNext]_keyVars PROVE KeyInv'
  OBVIOUS
<1>1. ASSUME NEW s \in ServerKeys \cup {NULL}, ServerChanges(s) PROVE KeyInv'
  BY <1>1 DEF ServerChanges, KeyInv, KeyTypeOK, Owned
<1>2. ASSUME NEW o \in Objects, Allocate(o) PROVE KeyInv'
  BY <1>2, NullAssumption DEF Allocate, KeyInv, KeyTypeOK, Owned
<1>3. ASSUME NEW o \in Objects, Initialize(o) PROVE KeyInv'
  <2>1. live' = live \cup {o}
    BY <1>3 DEF Initialize
  <2> QED
    BY <1>3, <2>1, NewKeyInv DEF Initialize
<1>4. ASSUME NEW o \in Objects, GetPublickey(o) PROVE KeyInv'
  <2>1. {key[o]} \ {NULL} = {} /\ server \in {"empty"} \cup ServerKeys \cup {NULL}
    BY <1>4 DEF GetPublickey, KeyInv, Owned, KeyTypeOK
  <2>2. CASE UNCHANGED <<live, key, content>>
    BY <1>4, <2>2 DEF GetPublickey, KeyInv, KeyTypeOK, Owned
  <2> QED
    BY <1>4, <2>1, <2>2, NewKeyInv DEF GetPublickey
<1>5. ASSUME NEW o \in Objects, Free(o) PROVE KeyInv'
  BY <1>5, FreeInv
<1>6. ASSUME NEW o \in Objects, Sha1(o) PROVE KeyInv'
  <2>1. Content(o) \in ServerKeys \cup {"empty", NULL}
    BY DEF Content, KeyInv, KeyTypeOK, Owned
  <2> QED
    BY <1>6, <2>1 DEF Sha1, KeyInv, KeyTypeOK, Owned
<1>7. CASE UNCHANGED keyVars
  BY <1>7 DEF keyVars, KeyInv, KeyTypeOK, Owned
<1> QED
  BY <1>1, <1>2, <1>3, <1>4, <1>5, <1>6, <1>7 DEF KeyNext

\* The types of Key hold, for any objects, ssh_keys and server keys.
THEOREM KeysTyped == KeySpec => []KeyTypeOK
<1>1. KeyInv => KeyTypeOK
  BY DEF KeyInv
<1> QED
  BY InitKeyInv, NextKeyInv, <1>1, PTL DEF KeySpec

\* Every ssh_key has one owner, whichever way its object was made (key_alloc,
\* m_initialize, get_publickey, key_free).
THEOREM OneOwner == KeySpec => []Ownership
<1>1. KeyInv => Ownership
  <2> SUFFICES ASSUME KeyInv PROVE Ownership
    OBVIOUS
  <2>1. ASSUME NEW k \in SshKeys, content[k] # "free"
        PROVE  k \in ({key[o] : o \in live} \ {NULL}) \cup forgotten
    BY <2>1, NullAssumption DEF KeyInv, Owned
  <2>2. ASSUME NEW o \in live, key[o] # NULL PROVE key[o] \in {k \in SshKeys : content[k] # "free"}
    BY <2>2 DEF KeyInv, Owned, KeyTypeOK
  <2>3. ASSUME NEW k \in forgotten PROVE k \in {j \in SshKeys : content[j] # "free"}
    BY DEF KeyInv, Owned, KeyTypeOK
  <2> QED
    BY <2>1, <2>2, <2>3 DEF KeyInv, Owned, KeyTypeOK, Ownership
<1> QED
  BY InitKeyInv, NextKeyInv, <1>1, PTL DEF KeySpec

\* A copy of the server's key stays what it was, whatever happens to the server
\* key and to the other objects, until its own object is initialized again.
THEOREM CopyStable == KeySpec => CopyIsStable
<1> DEFINE Stable == \A o \in Objects :
        o \in live \cap live' /\ Content(o) \in ServerKeys =>
            \/ Content(o)' = Content(o)
            \/ Content(o)' = "empty" /\ key[o] \in forgotten'
<1>1. ASSUME KeyInv, [KeyNext]_keyVars PROVE Stable
  <2> SUFFICES ASSUME NEW o \in Objects, o \in live, o \in live', Content(o) \in ServerKeys
               PROVE  \/ Content(o)' = Content(o)
                      \/ Content(o)' = "empty" /\ key[o] \in forgotten'
    OBVIOUS
  <2> DEFINE Same == key'[o] = key[o] /\ content'[key[o]] = content[key[o]]
  <2>1. key[o] # NULL /\ key[o] \in SshKeys /\ content[key[o]] \in ServerKeys
    <3>1. key[o] # NULL
      BY NullAssumption DEF Content
    <3> QED
      BY <1>1, <3>1 DEF Content, KeyInv, KeyTypeOK
  <2>2. content[key[o]] # "free"
    BY <2>1, ServerKeysAssumption
  <2>3. ASSUME NEW p \in Objects, NEW c, p # o, NewSshKey(p, c) PROVE Same
    BY <1>1, <2>2, <2>3 DEF NewSshKey, KeyInv, KeyTypeOK
  <2>4. ASSUME NEW p \in Objects, p # o, Initialize(p) PROVE Same
    BY <2>3, <2>4 DEF Initialize
  <2>5. ASSUME NEW p \in Objects, GetPublickey(p) PROVE Same
    BY <2>3, <2>5 DEF GetPublickey
  <2>6. ASSUME NEW p \in Objects, Free(p) PROVE Same
    <3>1. p # o
      BY <2>6 DEF Free
    <3>2. key[p] # key[o]
      BY <1>1, <2>1, <3>1 DEF KeyInv, Owned
    <3> QED
      BY <1>1, <2>1, <2>6, <3>1, <3>2 DEF Free, KeyInv, KeyTypeOK
  <2>7. ASSUME NEW p \in Objects, Allocate(p) PROVE Same
    BY <1>1, <2>7 DEF Allocate, KeyInv, KeyTypeOK
  <2>8. ASSUME Initialize(o) PROVE Content(o)' = "empty" /\ key[o] \in forgotten'
    <3>1. PICK k \in SshKeys : /\ content' = [content EXCEPT ![k] = "empty"]
                               /\ key' = [key EXCEPT ![o] = k]
      BY <2>8 DEF Initialize, NewSshKey
    <3>2. key'[o] = k /\ content'[k] = "empty" /\ k # NULL
      BY <1>1, <3>1, NullAssumption DEF KeyInv, KeyTypeOK
    <3> QED
      BY <2>1, <2>8, <3>2 DEF Initialize, Content
  <2>9. Same => Content(o)' = Content(o)
    BY DEF Content
  <2>10. ASSUME ~Initialize(o) PROVE Same
    BY <1>1, <2>4, <2>5, <2>6, <2>7, <2>10 DEF KeyNext, ServerChanges, Sha1, keyVars
  <2> QED
    BY <2>8, <2>9, <2>10
<1>2. ASSUME KeyInv, [KeyNext]_keyVars PROVE [Stable]_keyVars
  BY <1>1, <1>2
<1> QED
  BY InitKeyInv, NextKeyInv, <1>2, PTL DEF KeySpec, CopyIsStable
=============================================================================
