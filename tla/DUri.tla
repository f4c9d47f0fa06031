-------------------------------- MODULE DUri --------------------------------
(***************************************************************************)
(* One DUri (lib/network/DUri.cpp): Set and Clear, and the static Encode   *)
(* and Decode of a text that a caller builds.  A text is a sequence of     *)
(* byte codes.  A Uri is known by what the regular expressions of DUri.h   *)
(* find in it: whether it has the format, its parts, and its authority,    *)
(* which may be empty or be split no further.                              *)
(***************************************************************************)
EXTENDS Integers, Sequences

LOCAL INSTANCE SequencesExt

CONSTANTS
  Uris,            \* records of what is found in the Uris that are set
  Bytes,           \* the bytes of the texts
  MaxText          \* bound: how long a text grows

VARIABLES
  UriString,       \* the Uri, or NoUri
  Valid,
  parts,           \* Scheme, Authority, Path, Query and Fragment
  authority,       \* User, Pwd, Host and Port
  text             \* what the caller encodes

uvars == <<UriString, Valid, parts, authority, text>>

NoUri == [format |-> FALSE]
NoParts == [Scheme |-> "", Authority |-> "", Path |-> "", Query |-> "",
            Fragment |-> ""]
NoAuthority == [User |-> "", Pwd |-> "", Host |-> "", Port |-> ""]

DefaultPorts ==
  [https |-> "443", http |-> "80", ssh |-> "22", ftp |-> "21",
   mysql |-> "3306", mongo |-> "27017", kafka |-> "9092",
   postgres |-> "5432", postgresql |-> "5432", redis |-> "6379",
   zookeeper |-> "2181", ldap |-> "389", ldaps |-> "636"]

(* "mongo+srv" is known too.                                               *)
DefaultPort(scheme) ==
  IF scheme \in DOMAIN DefaultPorts THEN DefaultPorts[scheme]
  ELSE IF scheme = "mongo+srv" THEN "27017" ELSE ""

WithPort(auth, scheme) ==
  IF auth.Port = "" THEN [auth EXCEPT !.Port = DefaultPort(scheme)] ELSE auth

Init ==
  /\ UriString = NoUri
  /\ parts = NoParts /\ authority = NoAuthority /\ text = <<>>
  /\ Valid = FALSE

(* Fault: the Uri counts as valid once it has been split.                  *)
Parse_Early(uri) ==
  /\ Valid' = uri.format
  /\ parts' = IF uri.format THEN uri.parts ELSE parts
  /\ authority' = IF uri.format /\ uri.parts.Authority # "" /\ uri.splits
                    THEN WithPort(uri.authority, uri.parts.Scheme)
                    ELSE authority

(* A Uri without the format leaves all parts as they were, one whose       *)
(* authority does not split leaves the parts of the authority, and so does *)
(* one that has none.                                                      *)
Parse(uri) ==
  /\ Valid' = (uri.format /\ (uri.parts.Authority # "" => uri.splits))
  /\ parts' = IF uri.format THEN uri.parts ELSE parts
  /\ authority' = IF uri.format /\ uri.parts.Authority # "" /\ uri.splits
                    THEN WithPort(uri.authority, uri.parts.Scheme)
                    ELSE authority

Set(uri) == UriString' = uri /\ Parse(uri) /\ text' = <<>>

SetNone ==
  /\ UriString' = NoUri /\ Valid' = FALSE
  /\ UNCHANGED <<parts, authority, text>>

(* Valid stays as it is.                                                   *)
Clear ==
  /\ UriString' = NoUri /\ parts' = NoParts /\ authority' = NoAuthority
  /\ UNCHANGED <<Valid, text>>

Type(b) ==
  /\ UriString = NoUri /\ Len(text) < MaxText
  /\ text' = Append(text, b) /\ UNCHANGED <<UriString, Valid, parts, authority>>

Next ==
  \/ SetNone \/ Clear
  \/ \E uri \in Uris : Set(uri)
  \/ \E b \in Bytes : Type(b)

-----------------------------------------------------------------------------
(* Encode keeps these bytes, and those it is told to ignore:               *)
(* !'()*0-9A-Za-z-._~                                                      *)
Unreserved ==
  {33, 39, 40, 41, 42, 45, 46, 95, 126} \cup 48..57 \cup 65..90 \cup 97..122
Percent == 37
Digit(n) == IF n < 10 THEN 48 + n ELSE 55 + n

UserInfoIgnore == {58}
HostIgnore == {91, 58, 93}
PathIgnore == {47, 46, 64, 37, 59, 61}
QueryIgnore == {47, 63}
FragmentIgnore == {47, 46, 64, 38, 108, 59, 61, 37}

(* Hexadecimal without padding: a byte below 16 has one digit.             *)
Hex(b) == IF b < 16 THEN <<Digit(b)>> ELSE <<Digit(b \div 16), Digit(b % 16)>>

Encode(s, Ignore) ==
  FoldLeft(LAMBDA out, b : IF b \in Unreserved \cup Ignore THEN Append(out, b)
                           ELSE out \o <<Percent>> \o Hex(b), <<>>, s)

EncodeUserInfo(s) == Encode(s, UserInfoIgnore)
EncodeHost(s) == Encode(s, HostIgnore)
EncodePath(s) == Encode(s, PathIgnore)
EncodeQuery(s) == Encode(s, QueryIgnore)
EncodeFragment(s) == Encode(s, FragmentIgnore)

HexDigits == 48..57 \cup 65..70
ValueOf(d) == IF d < 58 THEN d - 48 ELSE d - 55
Escape(s, i) ==
  i + 2 <= Len(s) /\ s[i] = Percent /\ {s[i + 1], s[i + 2]} \subseteq HexDigits
Decoded(s, i) ==
  SubSeq(s, 1, i - 1) \o <<(16 * ValueOf(s[i + 1])) + ValueOf(s[i + 2])>>
  \o SubSeq(s, i + 3, Len(s))

(* Fault: what has been decoded is looked at again.                        *)
Decode_Again(s) ==
  FoldLeftDomain(LAMBDA t, n :
    IF \E i \in DOMAIN t : Escape(t, i)
      THEN Decoded(t, CHOOSE i \in DOMAIN t : Escape(t, i)) ELSE t, s, s)

(* One place after the other, in the text as it has become.                *)
Decode(s) ==
  FoldLeftDomain(LAMBDA t, i : IF Escape(t, i) THEN Decoded(t, i) ELSE t, s, s)

(* Decode gives back what was encoded, unless it has control characters    *)
(* or, in a path or a fragment, where the percent sign is not encoded,     *)
(* looks encoded already.                                                  *)
RoundTrip(s, Ignore) ==
  ((\A i \in DOMAIN s : s[i] >= 16)
   /\ (Percent \in Ignore => \A i \in DOMAIN s : ~Escape(s, i)))
  => Decode(Encode(s, Ignore)) = s

TextsSurvive ==
  \A Ignore \in {UserInfoIgnore, HostIgnore, PathIgnore, QueryIgnore,
                 FragmentIgnore} : RoundTrip(text, Ignore)

(* The parts of a valid Uri are its own, and those of its authority too    *)
(* when it has one: nothing of an earlier Uri shows through.               *)
PartsAgree ==
  Valid /\ UriString # NoUri =>
    /\ parts = UriString.parts
    /\ parts.Authority # "" =>
         /\ [authority EXCEPT !.Port = ""] = [UriString.authority EXCEPT !.Port = ""]
         /\ UriString.authority.Port # "" => authority.Port = UriString.authority.Port
=============================================================================
