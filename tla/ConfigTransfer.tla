---------------------------- MODULE ConfigTransfer ----------------------------
(***************************************************************************)
(* config_transfer.c: the settings of a device, written to a file that a   *)
(* user keeps and imports again, perhaps after editing it or on another    *)
(* device.  A file is a sequence of symbols: a key with the text around it *)
(* is one, the checksum is one, names and numbers are spelled.  Of the     *)
(* four numbers there are two, one with a range and one without.  The      *)
(* checksum is any function of the settings, so it may have collisions,    *)
(* and the digits a to f of its text may be capital letters.               *)
(***************************************************************************)
EXTENDS Naturals, Sequences

CONSTANTS
  NameMax,     \* STORAGE_SSID_MAX_BYTES
  ChannelMax,  \* 13
  NumberMax,   \* 255, the largest number consume_uint takes
  Digits,      \* the digits, from zero on
  Sums,        \* texts of eight hex digits
  Words,       \* the 32-bit words
  HexText,     \* what "%08x" prints of a word
  HexWord,     \* what parse_hex_u32 reads from a text
  Hash,        \* fnv1a_update over the canonical text of the settings
  Names,       \* the names devices have at first
  OtherDevice, \* the settings of another device
  MaxEdits     \* bound of the model: symbols the user changes

Base == Len(Digits)
DigitSet == {Digits[k] : k \in 1 .. Base}
Keys == {"schema", "ssid", "channel", "brightness", "checksum", "end"}
\* What a string may hold: a letter, digits, the version, checksums;
\* "unsafe" is a backslash or a control character, which it may not.
Safe == {"a", "v1"} \union DigitSet \union Sums
Symbols == Keys \union Safe \union {"quote", "unsafe"}

Settings == [ssid : UNION {[1 .. n -> Safe \union {"unsafe"}] : n \in 1 .. NameMax},
             channel : 1 .. ChannelMax, brightness : 0 .. NumberMax]

ASSUME TransferAssumption ==
  /\ NameMax \in Nat \ {0}
  /\ ChannelMax \in Nat \ {0} /\ NumberMax \in Nat /\ ChannelMax <= NumberMax
  /\ Digits \in Seq(DigitSet) /\ Base >= 2
  /\ \A k, l \in 1 .. Base : Digits[k] = Digits[l] => k = l
  /\ (DigitSet \union Sums) \cap (Keys \union {"quote", "unsafe", "failed"}) = {}
  /\ Hash \in [Settings -> Words]
  /\ HexText \in [Words -> Sums] /\ HexWord \in [Sums -> Words]
  /\ \A word \in Words : HexWord[HexText[word]] = word
  /\ \A name \in Names : \E n \in 1 .. NameMax : name \in [1 .. n -> Safe \union {"unsafe"}]
  /\ OtherDevice \in Settings
  /\ MaxEdits \in Nat

VARIABLES
  device,   \* the fields of s_credentials_context.config that travel
  origin,   \* history: the settings the file was exported from
  file,     \* the text the user has
  edits,    \* symbols changed since the export
  outcome   \* result of the import just made, "none" after anything else

transferVars == <<device, origin, file, edits, outcome>>

(* config_checksum over the canonical text.                                *)
Checksum(settings) == Hash[settings]
-----------------------------------------------------------------------------
(* "%u"                                                                    *)
Printed(n) ==
  LET printed[k \in 0 .. n] ==
        (IF k < Base THEN <<>> ELSE printed[k \div Base]) \o <<Digits[(k % Base) + 1]>>
  IN  printed[n]

(* ssid_export_safe: in the name of a device, "unsafe" may be a quote too. *)
ExportSafe(name) == name # <<>> /\ \A k \in 1 .. Len(name) : name[k] # "unsafe"

Quoted(text, rest) == <<"quote">> \o (text \o (<<"quote">> \o rest))

(* The text with a given checksum, and the one that is exported.           *)
Written(settings, sum) ==
  <<"schema">> \o Quoted(<<"v1">>,
  <<"ssid">> \o Quoted(settings.ssid,
  <<"channel">> \o (Printed(settings.channel) \o
  (<<"brightness">> \o (Printed(settings.brightness) \o
  (<<"checksum">> \o Quoted(<<sum>>, <<"end">>)))))))

Json(settings) == Written(settings, HexText[Checksum(settings)])

(* config_transfer_export_json.                                            *)
Export ==
  /\ ExportSafe(device.ssid)
  /\ file' = Json(device) /\ origin' = device
  /\ edits' = 0 /\ outcome' = "none"
  /\ UNCHANGED device

ExportRefused ==
  /\ ~ExportSafe(device.ssid)
  /\ outcome' = "none"
  /\ UNCHANGED <<device, origin, file, edits>>
-----------------------------------------------------------------------------
(* The user takes the file to another device, or edits it: a symbol is     *)
(* left out, replaced or put in.                                           *)
Carry ==
  /\ file # <<>>
  /\ device' = OtherDevice /\ outcome' = "none"
  /\ UNCHANGED <<origin, file, edits>>

Edit ==
  /\ file # <<>> /\ edits < MaxEdits
  /\ edits' = edits + 1 /\ outcome' = "none"
  /\ \E i \in 0 .. Len(file), old \in {0, 1}, new \in {<<>>} \union {<<s>> : s \in Symbols} :
       /\ i + old <= Len(file)
       /\ file' = SubSeq(file, 1, i) \o new \o SubSeq(file, i + old + 1, Len(file))
  /\ UNCHANGED <<device, origin>>
-----------------------------------------------------------------------------
(* The parser's cursor is what is left of the file.  Once a part of it was *)
(* not as expected, nothing that follows is.                               *)
Failed == <<"failed">>
From(text, i) == SubSeq(text, i, Len(text))

(* consume_literal.                                                        *)
AfterLiteral(text, symbol) ==
  IF text # <<>> /\ text[1] = symbol THEN From(text, 2) ELSE Failed

(* How many symbols of a set a text starts with.                           *)
Span(text, set) ==
  CHOOSE n \in 0 .. Len(text) :
    /\ \A k \in 1 .. n : text[k] \in set
    /\ n = Len(text) \/ text[n + 1] \notin set

(* consume_string: up to the first quote, at most max symbols.  The quotes *)
(* of a key end it as well, but then it is not the expected key.           *)
AfterString(text, max) ==
  LET inside == From(text, 2)
      n == Span(inside, Safe)
  IN  IF /\ text # <<>> /\ text[1] = "quote" /\ n <= max
         /\ n < Len(inside) /\ inside[n + 1] = "quote"
        THEN From(inside, n + 2) ELSE Failed

StringAt(text) ==
  LET inside == From(text, 2)
  IN  SubSeq(inside, 1, Span(inside, Safe))

(* consume_uint: all digits that follow, none of them a leading zero.      *)
Digit(symbol) == (CHOOSE k \in 1 .. Base : Digits[k] = symbol) - 1

Value(digits) ==
  LET value[k \in 0 .. Len(digits)] ==
        IF k = 0 THEN 0 ELSE value[k - 1] * Base + Digit(digits[k])
  IN  value[Len(digits)]

DigitsAt(text) == SubSeq(text, 1, Span(text, DigitSet))
NumberAt(text) == Value(DigitsAt(text))

\* Variant: leading zeros are read as if they were not there.
AfterNumberPadded(text) ==
  IF DigitsAt(text) # <<>> /\ NumberAt(text) <= NumberMax
    THEN From(text, Len(DigitsAt(text)) + 1) ELSE Failed

AfterNumber(text) ==
  IF /\ DigitsAt(text) # <<>> /\ NumberAt(text) <= NumberMax
     /\ text[1] = Digits[1] => Len(DigitsAt(text)) = 1
    THEN From(text, Len(DigitsAt(text)) + 1) ELSE Failed

(* config_transfer_import_json.                                            *)
SchemaMax == 2

\* parse_hex_u32, and the checksum it should be.
Matches(text, settings) ==
  \E sum \in Sums : text = <<sum>> /\ HexWord[sum] = Checksum(settings)

Parsed ==
  LET schema == AfterLiteral(file, "schema")
      ssid == AfterLiteral(AfterString(schema, SchemaMax), "ssid")
      channel == AfterLiteral(AfterString(ssid, NameMax), "channel")
      brightness == AfterLiteral(AfterNumber(channel), "brightness")
      checksum == AfterLiteral(AfterNumber(brightness), "checksum")
      end == AfterLiteral(AfterString(checksum, 1), "end")
      read == [ssid |-> StringAt(ssid), channel |-> NumberAt(channel),
               brightness |-> NumberAt(brightness)]
      result == IF end # <<>> THEN "parse"
                ELSE IF StringAt(schema) # <<"v1">> THEN "schema"
                ELSE IF ~ExportSafe(read.ssid) \/ read.channel \notin 1 .. ChannelMax
                       THEN "unsafe value"
                ELSE IF ~Matches(StringAt(checksum), read) THEN "checksum"
                ELSE "ok"
  IN  [result |-> result, settings |-> IF result = "ok" THEN read ELSE device]

Import ==
  /\ file # <<>>
  /\ outcome' = Parsed.result /\ device' = Parsed.settings
  /\ UNCHANGED <<origin, file, edits>>
-----------------------------------------------------------------------------
TransferInit ==
  /\ device \in [ssid : Names, channel : 1 .. ChannelMax, brightness : 0 .. NumberMax]
  /\ origin = device /\ file = <<>> /\ edits = 0 /\ outcome = "none"

TransferNext == Export \/ ExportRefused \/ Carry \/ Edit \/ Import

TransferSpec == TransferInit /\ [][TransferNext]_transferVars
-----------------------------------------------------------------------------
(* The types of the variables.                                             *)
TransferTypeOK ==
  /\ device \in Settings /\ origin \in Settings
  /\ file \in Seq(Symbols)
  /\ edits \in 0 .. MaxEdits
  /\ outcome \in {"none", "ok", "parse", "schema", "unsafe value", "checksum"}

(* An exported file gives every device that imports it the settings it was *)
(* exported from, also when a symbol was changed and changed back; and a   *)
(* file is accepted only if it is, symbol for symbol, what the device      *)
(* would export with the settings it has then, but for capital letters in  *)
(* the checksum: there is no other way to write the same settings, which   *)
(* the checksum, computed from what was read, would let pass.              *)
ImportInvertsExport ==
  file # <<>> /\ outcome # "none" =>
    /\ outcome = "ok" <=>
         /\ ExportSafe(device.ssid)
         /\ \E sum \in Sums :
              HexWord[sum] = Checksum(device) /\ file = Written(device, sum)
    /\ file = Json(origin) => device = origin
=============================================================================
