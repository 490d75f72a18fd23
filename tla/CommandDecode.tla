--------------------------- MODULE CommandDecode ---------------------------
(***************************************************************************)
(* The two decoders of motor commands: argus_browser_command.c for the     *)
(* body of POST /api/command and the command part of argus_mqtt_contract.c *)
(* for the payload of a command topic.  Both read their JSON object from   *)
(* left to right with a cursor; the model reads one token at a time, and   *)
(* `at' is the place in the decoder's code, or its verdict.                *)
(*                                                                         *)
(* A token is a punctuation mark, a space, a digit, a sign, a word, or a   *)
(* whole string: its text, or one of the strings the string parsers treat  *)
(* apart (written with an escape, or not acceptable at all).               *)
(***************************************************************************)
EXTENDS Integers, Sequences, FiniteSets, SequencesExt

CONSTANTS
    Digits,     \* the digits bodies use, a subset of DOMAIN DigitValue
    MaxTarget,  \* ARGUS_BROWSER_COMMAND_MAX_TARGET_RPM_MILLI, max_output_milli_rpm
    U32Max,     \* UINT32_MAX, scaled
    U64Max,     \* UINT64_MAX, scaled
    MaxDigits,  \* bound on the digits of a body
    SpaceWithin \* bound: one space, among the first tokens of a body

VARIABLES
    iface,    \* "browser" or "mqtt"
    topic,    \* the command of the MQTT topic
    script,   \* what a correct client sends, <<>> when anything may arrive
    body,     \* the tokens read so far
    at,       \* the decoder's place, or its verdict
    seen,     \* seen_fields
    field,    \* the member being read
    negative, \* a minus sign was read
    number,   \* the digits read so far, as a value
    request   \* candidate

decodeVars == <<iface, topic, script, body, at, seen, field, negative, number, request>>

DigitValue == [d \in {"0", "1", "2", "3", "4", "5", "6", "7", "8", "9"} |->
    CASE d = "0" -> 0 [] d = "1" -> 1 [] d = "2" -> 2 [] d = "3" -> 3 [] d = "4" -> 4
      [] d = "5" -> 5 [] d = "6" -> 6 [] d = "7" -> 7 [] d = "8" -> 8 [] d = "9" -> 9]

BrowserFields == {"command", "target_rpm_milli", "forward"}
MqttFields == {"session", "sequence", "command_id", "value", "authority_epoch"}

\* map_command, the names this model uses.
CommandNames == {"set_target", "start", "estop"}

\* The strings of a body: texts, a text written with \u escapes, and strings
\* that end the parse (unterminated, a control character, a bad escape, too
\* long for the buffer).
Escaped == [e \in {"\\u0066orward"} |-> "forward"]
BadString == "unterminated"
OtherText == "other"
Strings(i) ==
    (IF i = "browser" THEN BrowserFields \cup CommandNames \cup DOMAIN Escaped
     ELSE MqttFields \cup {"0a1b", "id-1"}) \cup {OtherText, BadString}

END == "end of the body"
Punctuation == {"{", "}", ",", ":"}
Words == {"true", "false"}
Junk == {"-", ".", "x"}
Tokens(i) == Strings(i) \cup Punctuation \cup Words \cup Junk \cup Digits \cup {" ", END}

NoRequest == [command |-> "none", target |-> 0, forward |-> FALSE, sequence |-> 0, epoch |-> 0]

Refusals == {"MALFORMED", "EMPTY_BODY", "TOP_LEVEL_NOT_OBJECT", "UNKNOWN_FIELD",
             "DUPLICATE_FIELD", "MISSING_FIELD", "UNEXPECTED_FIELD", "INVALID_TYPE",
             "INVALID_VALUE", "UNSUPPORTED_COMMAND", "VALUE_OUT_OF_RANGE"}

---------------------------------------------------------------------------
\* The pieces of a step: where it goes, and what it leaves alone.
MoveTo(place) == at' = place /\ UNCHANGED <<seen, field, negative, number, request>>

\* skip_whitespace, skip_ws: between tokens, never inside a value.
Skip(t) ==
    /\ t = " " /\ at \in {"start", "open", "key", "colon", "value", "close"}
    /\ MoveTo(at)

\* decode: the object opens.
Open(t) ==
    /\ at = "start" /\ t # " "
    /\ MoveTo(IF t = "{" THEN "open"
            ELSE IF iface = "mqtt" THEN "MALFORMED"
            ELSE IF t = END THEN "EMPTY_BODY" ELSE "TOP_LEVEL_NOT_OBJECT")

\* parse_json_string: escapes are decoded.
BrowserString(t) ==
    CASE t \in DOMAIN Escaped -> Escaped[t]
      [] t \in Strings("browser") -> t
      [] OTHER -> BadString

\* parse_string: no backslash is accepted.
MqttString(t) == IF t \in Strings("mqtt") THEN t ELSE BadString

\* The text of a string token, or a refusal.
StringText(t) == IF iface = "browser" THEN BrowserString(t) ELSE MqttString(t)

\* A member's key.  The object may close instead, but not after a comma.
Key(t) ==
    /\ at \in {"open", "key"} /\ t # " "
    /\ IF t = "}" /\ at = "open" THEN MoveTo("close")
       ELSE IF StringText(t) = BadString THEN MoveTo("MALFORMED")
       ELSE /\ at' = "colon" /\ field' = StringText(t)
            /\ UNCHANGED <<seen, negative, number, request>>

\* Mutant: a member that was already read is read again.
DuplicateMutant == FALSE

\* seen_fields: the browser decoder looks before it reads the value, the MQTT
\* decoder afterwards.
Duplicate == field \in seen

Colon(t) ==
    /\ at = "colon" /\ t # " "
    /\ IF t # ":" THEN MoveTo("MALFORMED")
       ELSE IF field \notin (IF iface = "browser" THEN BrowserFields ELSE MqttFields)
       THEN MoveTo("UNKNOWN_FIELD")
       ELSE IF iface = "browser" /\ Duplicate THEN MoveTo("DUPLICATE_FIELD")
       ELSE /\ at' = "value" /\ negative' = FALSE /\ number' = 0
            /\ UNCHANGED <<seen, field, request>>

\* A value the MQTT decoder refuses: a duplicate is reported first.
BadValue == MoveTo(IF Duplicate THEN "DUPLICATE_FIELD" ELSE "INVALID_VALUE")

\* After a value: another member, the end of the object, or nothing that fits.
After(t) ==
    CASE t = " " -> "after" [] t = "," -> "key" [] t = "}" -> "close" [] OTHER -> "MALFORMED"

\* The member is complete.
Took(place, r) ==
    IF iface = "mqtt" /\ Duplicate THEN MoveTo("DUPLICATE_FIELD")
    ELSE /\ at' = place /\ seen' = seen \cup {field} /\ request' = r
         /\ UNCHANGED <<field, negative, number>>

---------------------------------------------------------------------------
IsNumeric ==
    \/ field \in {"sequence", "authority_epoch"}
    \/ field = "value" /\ topic = "set_target"

\* parse_command_value
CommandValue(t) ==
    /\ at = "value" /\ field = "command" /\ t # " "
    /\ IF t \notin Strings(iface) THEN MoveTo(IF t = END THEN "MALFORMED" ELSE "INVALID_TYPE")
       ELSE IF StringText(t) = BadString THEN MoveTo("MALFORMED")
       ELSE IF StringText(t) \notin CommandNames THEN MoveTo("UNSUPPORTED_COMMAND")
       ELSE Took("after", [request EXCEPT !.command = StringText(t)])

\* parse_forward_value: the word must end there.
ForwardValue(t) ==
    /\ at = "value" /\ field = "forward" /\ t # " "
    /\ IF t \in Words THEN Took("word", [request EXCEPT !.forward = (t = "true")])
       ELSE MoveTo(IF t = END THEN "MALFORMED" ELSE "INVALID_TYPE")

\* valid_session, valid_command_id: the one text of each the model uses.
MqttText(t) ==
    /\ at = "value" /\ field \in {"session", "command_id"} /\ t # " "
    /\ IF StringText(t) = (IF field = "session" THEN "0a1b" ELSE "id-1")
       THEN Took("after", request) ELSE BadValue

\* parse_true: the value of every MQTT command but set_target.
MqttTrue(t) ==
    /\ at = "value" /\ field = "value" /\ topic # "set_target" /\ t # " "
    /\ IF t = "true" THEN Took("after", request) ELSE BadValue

\* Mutant: the range of the target is off by one.
TargetInRangeMutant == ~negative /\ number <= MaxTarget + 1

\* parse_target_value, parse_u32 and its callers: the number is complete.
TargetInRange == ~negative /\ number <= MaxTarget

\* The token after a number must be a delimiter.
TargetEnds(t) ==
    IF t = "." THEN MoveTo("INVALID_TYPE")
    ELSE IF t \notin {" ", ",", "}", END} THEN MoveTo("MALFORMED")
    ELSE IF ~TargetInRange THEN MoveTo("VALUE_OUT_OF_RANGE")
    ELSE Took(After(t), [request EXCEPT !.target = number])

\* decode_command: each number has its own condition.
MqttNumberEnds(t) ==
    IF \/ t = "."
       \/ field = "sequence" /\ number = 0
       \/ field = "value" /\ ~TargetInRange
    THEN BadValue
    ELSE Took(After(t), CASE field = "value" -> [request EXCEPT !.target = number]
                          [] field = "sequence" -> [request EXCEPT !.sequence = number]
                          [] OTHER -> [request EXCEPT !.epoch = number])

\* The guard against overflow before (browser) or after (MQTT) the digit is added.
Overflows(d) ==
    IF iface = "browser" THEN number > (U64Max - d) \div 10
    ELSE number * 10 + d > U32Max

Width == IF iface = "browser" THEN U64Max + 1 ELSE U32Max + 1

FirstDigit(t) ==
    /\ at' = IF t = "0" THEN "zero" ELSE "digits"
    /\ number' = DigitValue[t] /\ UNCHANGED <<seen, field, negative, request>>

MoreDigits(t) ==
    /\ number' = (number * 10 + DigitValue[t]) % Width
    /\ UNCHANGED <<at, seen, field, negative, request>>

\* parse_target_value: a sign is read (and refused at the end), no leading zero.
TargetValue(t) ==
    /\ iface = "browser"
    /\ \/ /\ at = "value" /\ field = "target_rpm_milli" /\ t = "-"
          /\ at' = "minus" /\ negative' = TRUE /\ UNCHANGED <<seen, field, number, request>>
       \/ /\ \/ at = "value" /\ field = "target_rpm_milli" /\ t \notin {" ", "-"}
             \/ at = "minus"
          /\ IF t \in Digits THEN FirstDigit(t)
             ELSE MoveTo(IF t = END THEN "MALFORMED" ELSE "INVALID_TYPE")
       \/ /\ at = "zero"
          /\ IF t \in Digits THEN MoveTo("MALFORMED") ELSE TargetEnds(t)
       \/ /\ at = "digits"
          /\ IF t \notin Digits THEN TargetEnds(t)
             ELSE IF Overflows(DigitValue[t]) THEN MoveTo("VALUE_OUT_OF_RANGE") ELSE MoreDigits(t)

\* parse_u32
MqttNumber(t) ==
    /\ iface = "mqtt"
    /\ \/ /\ at = "value" /\ IsNumeric /\ t # " "
          /\ IF t \in Digits THEN FirstDigit(t) ELSE BadValue
       \/ /\ at = "zero"
          /\ IF t \in Digits THEN BadValue ELSE MqttNumberEnds(t)
       \/ /\ at = "digits"
          /\ IF t \notin Digits THEN MqttNumberEnds(t)
             ELSE IF Overflows(DigitValue[t]) THEN BadValue ELSE MoreDigits(t)

\* is_value_delimiter after true and false, and what follows any value.
Separator(t) == at \in {"word", "after"} /\ MoveTo(After(t))

\* decode, decode_command: which members a command must and may have.
Complete ==
    IF iface = "mqtt" THEN IF seen = MqttFields THEN "OK" ELSE "MISSING_FIELD"
    ELSE IF "command" \notin seen THEN "MISSING_FIELD"
    ELSE IF request.command = "set_target"
    THEN IF seen = BrowserFields THEN "OK" ELSE "MISSING_FIELD"
    ELSE IF seen = {"command"} THEN "OK" ELSE "UNEXPECTED_FIELD"

\* After the object only spaces may follow.
Close(t) ==
    /\ at = "close" /\ t # " "
    /\ MoveTo(IF t = END THEN Complete ELSE "MALFORMED")

\* One token is read.  What a refused body was is not remembered.
Read(t) ==
    /\ Skip(t) \/ Open(t) \/ Key(t) \/ Colon(t) \/ CommandValue(t) \/ ForwardValue(t)
       \/ MqttText(t) \/ MqttTrue(t) \/ TargetValue(t) \/ MqttNumber(t) \/ Separator(t) \/ Close(t)
    /\ body' = IF at' \in Refusals THEN <<>> ELSE Append(body, t)
    /\ UNCHANGED <<iface, topic, script>>

\* What the client sends next: the script, or anything within the bounds.
Offered(t) ==
    IF script # <<>>
    THEN t = IF Len(body) < Len(script) THEN script[Len(body) + 1] ELSE END
    ELSE /\ t = " " => Len(body) < SpaceWithin /\ \A i \in DOMAIN body : body[i] # " "
         /\ t \in Digits => Len(SelectSeq(body, LAMBDA u : u \in Digits)) < MaxDigits

---------------------------------------------------------------------------
\* The reference: how a client writes a request.  A number is written in
\* decimal without leading zeros, every required member once, in any order.
Spell[n \in 0 .. U32Max] ==
    LET digit(k) == CHOOSE d \in DOMAIN DigitValue : DigitValue[d] = k
    IN IF n < 10 THEN <<digit(n)>> ELSE Append(Spell[n \div 10], digit(n % 10))

Members(i, tp, r) ==
    IF i = "mqtt"
    THEN [f \in MqttFields |->
            CASE f = "session" -> <<"0a1b">>
              [] f = "sequence" -> Spell[r.sequence]
              [] f = "command_id" -> <<"id-1">>
              [] f = "authority_epoch" -> Spell[r.epoch]
              [] OTHER -> IF tp = "set_target" THEN Spell[r.target] ELSE <<"true">>]
    ELSE [f \in (IF r.command = "set_target" THEN BrowserFields ELSE {"command"}) |->
            CASE f = "command" -> <<r.command>>
              [] f = "target_rpm_milli" -> Spell[r.target]
              [] OTHER -> <<IF r.forward THEN "true" ELSE "false">>]

Orders(S) == {o \in [1 .. Cardinality(S) -> S] : \A i, j \in DOMAIN o : o[i] = o[j] => i = j}
OrdersOf == [S \in {BrowserFields, {"command"}, MqttFields} |-> Orders(S)]

Written(order, m) ==
    <<"{">> \o FlattenSeq([i \in DOMAIN order |->
        (IF i = 1 THEN <<>> ELSE <<",">>) \o <<order[i], ":">> \o m[order[i]]]) \o <<"}">>

\* A body without its spaces and escapes.
Plain(b) ==
    [i \in DOMAIN SelectSeq(b, LAMBDA u : u # " ") |->
        LET t == SelectSeq(b, LAMBDA u : u # " ")[i]
        IN IF t \in DOMAIN Escaped THEN Escaped[t] ELSE t]

\* A request a client may want: its target and numbers are within the limits.
Requests(i) ==
    IF i = "browser"
    THEN {[NoRequest EXCEPT !.command = c, !.target = v, !.forward = f] :
            c \in {"set_target"}, v \in 0 .. MaxTarget, f \in BOOLEAN}
         \cup {[NoRequest EXCEPT !.command = c] : c \in CommandNames \ {"set_target"}}
    ELSE {[NoRequest EXCEPT !.target = v, !.sequence = s, !.epoch = e] :
            v \in {0, 1, MaxTarget}, s \in {1, 10}, e \in {0, 1}}

Scripts(i, tp) ==
    UNION {LET m == Members(i, tp, r) IN {Written(o, m) : o \in OrdersOf[DOMAIN m]} :
           r \in Requests(i)}

\* Both decoders read what was written and nothing else: whatever they accept is
\* one object with each required member once and no other, and the target they
\* hand on is the number that was written; and a correctly written request is
\* never refused (argus_browser_command_decode, argus_mqtt_decode_command).
DecodesExactly ==
    /\ at = "OK" =>
        LET m == Members(iface, topic, request)
        IN \E o \in OrdersOf[DOMAIN m] : Append(Written(o, m), END) = Plain(body)
    /\ script # <<>> => at \notin Refusals
===========================================================================
