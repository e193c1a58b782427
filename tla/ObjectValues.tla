----------------------------- MODULE ObjectValues -----------------------------
(***************************************************************************)
(* The values of a JS object's properties: local ones, and those in the    *)
(* session's table, where they are bytes behind a type tag.                *)
(*                                                                         *)
(* distributed_data_object.js turns strings, objects and null into marked  *)
(* strings; JSDistributedObject puts what it gets by its JS type and reads *)
(* an item twice, for its tag and for its value; DistributedObjectImpl     *)
(* lays numbers out big-endian.  Joining puts the local properties one by  *)
(* one, leaving reads them back one by one before it deletes the table;    *)
(* peers, which run the same code, write at any time.                      *)
(*                                                                         *)
(* A marker stands for one byte outside 0..255, a JSON text for a string   *)
(* of bytes.  Strings have no NUL and keys are short: where the code cuts  *)
(* them (js_util.cpp:69, js_distributedobject.cpp:84) is not modelled.     *)
(***************************************************************************)
EXTENDS Integers, Sequences

CONSTANTS
  Keys, NoKey,   (* the properties of the object                           *)
  Numbers,   (* the numbers that are put: unsigned words                   *)
  Texts,     (* the strings that are put, and the JSON texts               *)
  WordLen,   (* sizeof(double).  Bound: it is 8 in the code.               *)
  Faults     (* "put", "get": what the engine may fail to do               *)

TYPE_STRING == 0
TYPE_BOOLEAN == 1
TYPE_DOUBLE == 2
TYPE_COMPLEX == 3

STRING_TYPE == 256
COMPLEX_TYPE == 257
NULL_TYPE == 258

NullText == <<255>>

\* What is left of a number when k of its bytes have been shifted out (>>).
Shifted(n, len) ==
  LET rest[k \in 0..len] == IF k = 0 THEN n ELSE rest[k - 1] \div 256 IN rest

\* The numbers that len bytes can hold.
Fits(n, len) == n \in Nat /\ Shifted(n, len)[len] = 0

ASSUME ValuesAssumption ==
  /\ NoKey \notin Keys
  /\ WordLen \in Nat \ {0}
  /\ \A n \in Numbers : Fits(n, WordLen)
  /\ Texts \subseteq Seq(1..258) \ {<<>>, NullText}
  /\ Faults \subseteq {"put", "get"}

\* JS values.  Null is an object to typeof.
Undefined == [kind |-> "undefined", v |-> <<>>]
Null == [kind |-> "null", v |-> NullText]
Values ==
  [kind : {"number"}, v : {<<n>> : n \in Numbers}] \cup [kind : {"boolean"}, v : {<<0>>, <<1>>}]
    \cup [kind : {"string"}, v : Texts] \cup [kind : {"object"}, v : {t \in Texts : t[1] < 256}]
    \cup {Null}

VARIABLES
  joined,      (* TRUE: the object is in a session                         *)
  local,       (* its properties while it is in none                       *)
  field,       (* history: the value last put to a field of the session    *)
  table,       (* the items of the session's table; <<>> is none           *)
  undefinedProperties,
  call,        (* what the JS thread is doing                              *)
  during       (* history: the values the field that is read has had since *)
               (* the reading began; {} if of different tags, or if it fails *)

vars == <<joined, local, field, table, undefinedProperties, call, during>>

-----------------------------------------------------------------------------
\* PutNum, most significant byte first, and its mutant.
LittleEndian(n, len) == [i \in 1..len |-> Shifted(n, len)[i - 1] % 256]
PutNum(n, len) == [i \in 1..len |-> Shifted(n, len)[len - i] % 256]

\* GetNum refuses an item that is too short.
HasNum(data, offset, len) == Len(data) >= offset + len
GetNum(data, offset, len) ==
  LET value[i \in 0..len] ==
        IF i = 0 THEN 0 ELSE 256 * value[i - 1] + (data[offset + i] % 256)
  IN  value[len]

\* The setter of joinSession: what is put for a value ...
Marked(value) ==
  CASE value.kind \in {"object", "null"} -> <<COMPLEX_TYPE>> \o value.v
    [] value.kind = "string" -> <<STRING_TYPE>> \o value.v
    [] OTHER -> value.v

\* ... and DoPut, PutString, PutBoolean, PutDouble: its bytes.
Encode(value) ==
  CASE value.kind = "number" -> <<TYPE_DOUBLE>> \o PutNum(value.v[1], WordLen)
    [] value.kind = "boolean" -> <<TYPE_BOOLEAN>> \o PutNum(value.v[1], 1)
    [] OTHER -> <<TYPE_STRING>> \o Marked(value)

\* The getter of joinSession.  What has no marker is handed on as it is.
Unmarked(text) ==
  CASE text[1] = STRING_TYPE -> [kind |-> "string", v |-> Tail(text)]
    [] text[1] = COMPLEX_TYPE /\ Tail(text) = NullText -> Null
    [] text[1] = COMPLEX_TYPE /\ Tail(text) # NullText -> [kind |-> "object", v |-> Tail(text)]
    [] text[1] = NULL_TYPE -> Null
    [] OTHER -> [kind |-> "string", v |-> text]

\* GetString, GetDouble, GetBoolean, GetComplex of an item, by the tag that was
\* read: an item that is too short, or no item, gives nothing.
Decode(tag, data) ==
  CASE tag = TYPE_STRING /\ Len(data) > 1 -> Unmarked(Tail(data))
    [] tag = TYPE_DOUBLE /\ HasNum(data, 1, WordLen) ->
         [kind |-> "number", v |-> <<GetNum(data, 1, WordLen)>>]
    [] tag = TYPE_BOOLEAN /\ HasNum(data, 1, 1) ->
         [kind |-> "boolean", v |-> IF GetNum(data, 1, 1) = 0 THEN <<0>> ELSE <<1>>]
    [] tag = TYPE_COMPLEX /\ data # <<>> -> [kind |-> "bytes", v |-> data]
    [] OTHER -> Undefined

-----------------------------------------------------------------------------
NoCall == [op |-> "none", step |-> "idle", key |-> NoKey, todo |-> {}, tag |-> TYPE_STRING,
           result |-> Undefined, steady |-> {}]

Results == [kind : {"undefined", "null", "number", "boolean", "string", "object", "bytes"},
            v : Seq(Nat)]

TypeOK ==
  /\ joined \in BOOLEAN
  /\ local \in [Keys -> Results]
  /\ field \in [Keys -> Results]
  /\ table \in [Keys -> Seq(0..258)]
  /\ undefinedProperties \subseteq Keys
  /\ call \in [op : {"none", "get", "join", "leave"}, step : {"idle", "type", "value", "done"},
               key : Keys \cup {NoKey}, todo : SUBSET Keys, tag : TYPE_STRING..TYPE_COMPLEX,
               result : Results, steady : SUBSET Keys]
  /\ during \subseteq Results

Init ==
  /\ joined = FALSE
  /\ local \in [Keys -> Values \cup {Undefined}]
  /\ field = [k \in Keys |-> Undefined]
  /\ table = [k \in Keys |-> <<>>]
  /\ undefinedProperties = {}
  /\ call = NoCall
  /\ during = {}

Tag(value) == IF value = Undefined THEN -1 ELSE Encode(value)[1]

\* A field gets a value.  A reading of it that is under way may return either,
\* unless the tags differ.
Writes(k, value) ==
  /\ field' = [field EXCEPT ![k] = value]
  /\ table' = [table EXCEPT ![k] = Encode(value)]
  /\ during' = IF call.key # k \/ call.step \notin {"type", "value"} THEN during
               ELSE IF {Tag(d) : d \in during} = {Tag(value)} THEN during \cup {value} ELSE {}

-----------------------------------------------------------------------------
\* A property of an object in no session.
SetLocal(k, value) ==
  /\ ~joined /\ call = NoCall
  /\ local' = [local EXCEPT ![k] = value]
  /\ UNCHANGED <<joined, field, table, undefinedProperties, call, during>>

\* joinSession: a new table and wrapper, then the properties one by one.
Join ==
  /\ ~joined /\ call = NoCall
  /\ joined' = TRUE
  /\ call' = [NoCall EXCEPT !.op = "join", !.todo = Keys]
  /\ UNCHANGED <<local, field, table, undefinedProperties, during>>

\* Mutant of IsPut: a property that is false is taken to be undefined.
IsTrue(value) == value \notin {Undefined, Null} /\ value.v # <<0>>

\* obj[key] != undefined, which null is not either.
IsPut(value) == value \notin {Undefined, Null}

\* A put that fails is ignored.
JoinKey(k) ==
  /\ call.op = "join"
  /\ k \in call.todo
  /\ \/ /\ IsPut(local[k])
        /\ Writes(k, local[k])
        /\ call' = [call EXCEPT !.todo = @ \ {k}, !.steady = @ \cup {k}]
     \/ /\ IsPut(local[k]) => "put" \in Faults
        /\ call' = [call EXCEPT !.todo = @ \ {k},
             !.steady = IF IsPut(local[k]) THEN @ ELSE @ \cup {k}]
        /\ UNCHANGED <<field, table, during>>
  /\ UNCHANGED <<joined, local, undefinedProperties>>

Joined ==
  /\ call.op = "join"
  /\ call.todo = {}
  /\ call' = NoCall
  /\ local' = [k \in Keys |-> Undefined]
  /\ UNCHANGED <<joined, field, table, undefinedProperties, during>>

\* JSPut: undefined is kept in the wrapper only.
Set(k, value) ==
  /\ joined /\ call = NoCall
  /\ \/ /\ value = Undefined
        /\ undefinedProperties' = undefinedProperties \cup {k}
        /\ UNCHANGED <<field, table, during>>
     \/ /\ value # Undefined
        /\ undefinedProperties' = undefinedProperties \ {k}
        /\ Writes(k, value) \/ ("put" \in Faults /\ UNCHANGED <<field, table, during>>)
  /\ UNCHANGED <<joined, local, call>>

\* A peer's put arrives.
RemoteWrite(k, value) ==
  /\ joined
  /\ Writes(k, value)
  /\ call' = [call EXCEPT !.steady = @ \ {k}]
  /\ UNCHANGED <<joined, local, undefinedProperties>>

-----------------------------------------------------------------------------
\* JSGet: a property that was set to undefined is not looked up.
StartGet(c) ==
  IF c.key \in undefinedProperties
    THEN /\ call' = [c EXCEPT !.step = "done", !.result = Undefined]
         /\ UNCHANGED during
    ELSE /\ call' = [c EXCEPT !.step = "type"]
         /\ during' = {field[c.key]}

Get(k) ==
  /\ joined /\ call = NoCall
  /\ StartGet([NoCall EXCEPT !.op = "get", !.key = k])
  /\ UNCHANGED <<joined, local, field, table, undefinedProperties>>

\* Mutant of GetType: the tag is looked for behind the value.
TagBehind ==
  /\ call.step = "type"
  /\ LET data == table[call.key] IN
       call' = [call EXCEPT !.step = "value",
                  !.tag = IF data = <<>> THEN TYPE_STRING ELSE data[Len(data)]]
  /\ UNCHANGED <<joined, local, field, table, undefinedProperties, during>>

\* DoGet reads the tag; when there is none it goes on as for a string.
GetType ==
  /\ call.step = "type"
  /\ LET data == table[call.key] IN
       \/ /\ call' = [call EXCEPT !.step = "value",
                        !.tag = IF data = <<>> THEN TYPE_STRING ELSE data[1]]
        /\ UNCHANGED during
     \/ /\ "get" \in Faults
        /\ call' = [call EXCEPT !.step = "value"]
        /\ during' = {}
  /\ UNCHANGED <<joined, local, field, table, undefinedProperties>>

\* Then the value.  (After a failure the reading proves nothing.)
GetValue ==
  /\ call.step = "value"
  /\ \/ /\ call' = [call EXCEPT !.step = "done", !.result = Decode(call.tag, table[call.key])]
        /\ UNCHANGED during
     \/ /\ "get" \in Faults
        /\ call' = [call EXCEPT !.step = "done"]
        /\ during' = {}
  /\ UNCHANGED <<joined, local, field, table, undefinedProperties>>

Return ==
  /\ call.op = "get"
  /\ call.step = "done"
  /\ call' = NoCall
  /\ during' = {}
  /\ UNCHANGED <<joined, local, field, table, undefinedProperties>>

-----------------------------------------------------------------------------
\* Mutant of StartLeave: the object is destroyed before it is read.
DestroyFirst ==
  /\ joined /\ call = NoCall
  /\ call' = [NoCall EXCEPT !.op = "leave", !.todo = Keys]
  /\ table' = [k \in Keys |-> <<>>]
  /\ UNCHANGED <<joined, local, field, undefinedProperties, during>>

\* leaveSession: one property after the other is read and made local.
StartLeave ==
  /\ joined /\ call = NoCall
  /\ call' = [NoCall EXCEPT !.op = "leave", !.todo = Keys]
  /\ UNCHANGED <<joined, local, field, table, undefinedProperties, during>>

LeaveKey(k) ==
  /\ call.op = "leave"
  /\ call.step = "idle"
  /\ k \in call.todo
  /\ StartGet([call EXCEPT !.key = k, !.todo = @ \ {k}])
  /\ UNCHANGED <<joined, local, field, table, undefinedProperties>>

Keep ==
  /\ call.op = "leave"
  /\ call.step = "done"
  /\ local' = [local EXCEPT ![call.key] = call.result]
  /\ call' = [call EXCEPT !.step = "idle", !.key = NoKey, !.result = Undefined, !.tag = TYPE_STRING,
       !.steady = IF during = {field[call.key]} THEN @ \cup {call.key} ELSE @]
  /\ during' = {}
  /\ UNCHANGED <<joined, field, table, undefinedProperties>>

\* destroyObjectSync: the table is deleted, the wrapper is not used any more.
Destroy ==
  /\ call.op = "leave"
  /\ call.step = "idle"
  /\ call.todo = {}
  /\ joined' = FALSE
  /\ call' = NoCall
  /\ field' = [k \in Keys |-> Undefined]
  /\ table' = [k \in Keys |-> <<>>]
  /\ undefinedProperties' = {}
  /\ UNCHANGED <<local, during>>

-----------------------------------------------------------------------------
Next ==
  \/ \E k \in Keys, value \in Values \cup {Undefined} : SetLocal(k, value) \/ Set(k, value)
  \/ Join
  \/ \E k \in Keys : JoinKey(k)
  \/ Joined
  \/ \E k \in Keys, value \in Values : RemoteWrite(k, value)
  \/ \E k \in Keys : Get(k)
  \/ GetType
  \/ GetValue
  \/ Return
  \/ StartLeave
  \/ \E k \in Keys : LeaveKey(k)
  \/ Keep
  \/ Destroy

Spec == Init /\ [][Next]_vars

-----------------------------------------------------------------------------
\* A reading, by an application or by leaveSession, returns a value that the
\* field had since it began, the very one that was put, whatever peers put
\* meanwhile; or undefined, if the application has set the property to that.
\* Nothing is said of a reading that fails, or of one during which a peer puts
\* a value with another tag: DoGet then takes one value's bytes by the other's tag.
GetIsTrue ==
  call.step = "done" =>
    IF call.key \in undefinedProperties THEN call.result = Undefined
    ELSE during # {} => call.result \in during

\* When joinSession has walked the properties, what a peer would read of each
\* is what the object had, unless it was undefined or null, the put failed, or
\* a peer has put something else since.
JoinPublishes ==
  call.op = "join" /\ call.todo = {} =>
    \A k \in call.steady :
      local[k] \notin {Undefined, Null} =>
        table[k] # <<>> /\ Decode(table[k][1], table[k]) = local[k]

\* When leaveSession destroys the object, the object has kept what the session
\* had last of each property that was read undisturbed and not put since.
KeepsOnLeave == [][joined /\ ~joined' => \A k \in call.steady : local'[k] = field[k]]_vars
=============================================================================
