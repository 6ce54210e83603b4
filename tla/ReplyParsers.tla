---------------------------- MODULE ReplyParsers ----------------------------
(***************************************************************************)
(* The SAX parsers of RPC replies (package rpc of the Bundle, the same     *)
(* files in the Manager): CcStateParser, which hands the elements of       *)
(* <client_state> to one sub-parser for each kind of item, the sub-parsers *)
(* on top of BaseParser, and AccountOutParser.                             *)
(*                                                                         *)
(* The native client writes a well-formed reply element by element, and    *)
(* the XML library calls startElement, characters and endElement for it;   *)
(* it may cut a text into any pieces.  `said' keeps what the reply says,   *)
(* for the properties only.                                                *)
(*                                                                         *)
(* The fields of an item are abstracted to the one it cannot do without    *)
(* ("name": the name, the master URL of a project, the app_name of an      *)
(* application version) and one more ("value").  A result may hold an      *)
(* <active_task> with a field of its own ("slot").  Unknown elements,      *)
(* which the client sends in every item, have texts, too ("other").        *)
(***************************************************************************)
EXTENDS Integers, Sequences, SequencesExt

CONSTANTS
    Space, Letter,    \* characters
    MaxItems,         \* bound: items in a reply
    MaxFields,        \* bound: fields in a reply
    MaxText           \* bound: characters in the fields of a reply, together

ASSUME SpaceAssumption == Space # Letter
ASSUME BoundsAssumption == MaxItems \in Nat /\ MaxFields \in Nat /\ MaxText \in Nat

Kinds == {"project", "app", "app_version", "workunit", "result"}
Parsers == Kinds \cup {"client_state", "account_out"}

VARIABLES
    open,      \* names of the open elements, the innermost last
    text,      \* what has been written of the text of the innermost
    said,      \* the items and fields of the reply so far
    mIn,       \* mInProject, mInApp, ... of CcStateParser
    parser,    \* the state of each parser object
    result     \* what parse has returned: nothing yet, or the object

vars == <<open, text, said, mIn, parser, result>>

NoItem == [kind |-> "null"]
NoResult == [returned |-> FALSE]

(* A new object of the data classes: strings are empty, flags false. *)
NewItem(kind) ==
    [kind |-> kind, name |-> <<>>, value |-> <<>>, active |-> FALSE, slot |-> <<>>]

NewParser ==
    [mElementStarted |-> FALSE, mCurrentElement |-> <<>>, mInActiveTask |-> FALSE,
     item |-> NoItem, list |-> <<>>]

Init ==
    /\ open \in { <<"client_state">>, <<"account_out">> }
    /\ text = <<>>
    /\ said = [items |-> <<>>, fields |-> <<>>, length |-> 0]
    /\ mIn = [k \in Kinds |-> FALSE]
    /\ parser = [p \in Parsers |->
                    IF p = "account_out" /\ open = <<p>>
                    THEN [NewParser EXCEPT !.mElementStarted = TRUE]
                    ELSE NewParser]
    /\ result = NoResult

Inside(name) == open # <<>> /\ Last(open) = name
InItem == open # <<>> /\ Last(open) \in Kinds
RootIs(name) == open # <<>> /\ open[1] = name

-----------------------------------------------------------------------------
(* BaseParser *)

IsBlank(s) == \A i \in DOMAIN s : s[i] = Space

TrimStart(s) ==
    IF IsBlank(s) THEN <<>>
    ELSE SubSeq(s, SelectInSeq(s, LAMBDA c : c # Space), Len(s))

TrimEnd(s) ==
    SubSeq(s, 1, SelectLastInSeq(s, LAMBDA c : c # Space))

(* Faulty variant: every piece of a text is taken for the whole of it. *)
CharactersTrimmed(p, ch) ==
    IF ~p.mElementStarted THEN p
    ELSE [p EXCEPT !.mCurrentElement = @ \o TrimStart(ch)]

(* A text is collected inside an element; its leading white space is left  *)
(* out while nothing else has been seen.                                   *)
Characters(p, ch) ==
    IF ~p.mElementStarted THEN p
    ELSE [p EXCEPT !.mCurrentElement =
             IF @ = <<>> THEN TrimStart(ch) ELSE @ \o ch]

CollectText(p) == [p EXCEPT !.mElementStarted = TRUE, !.mCurrentElement = <<>>]

-----------------------------------------------------------------------------
(* The sub-parsers of CcStateParser *)

SubStart(kind, p, name) ==
    CASE name = kind -> [p EXCEPT !.item = NewItem(kind)]
      [] kind = "app_version" /\ name # kind -> p
      [] kind = "result" /\ name = "active_task" -> [p EXCEPT !.mInActiveTask = TRUE]
      [] OTHER -> CollectText(p)

(* The closing tag of an item adds it, if it has its name. *)
CloseItem(p) ==
    [p EXCEPT !.item = NoItem,
              !.list = IF p.item.name = <<>> THEN @ ELSE Append(@, p.item)]

(* Faulty variant: after an active task, the rest of the result is taken   *)
(* for more of it.                                                         *)
DecodeInTask(p, name) ==
    LET content == TrimEnd(p.mCurrentElement)
        field == IF p.mInActiveTask THEN {"slot"} ELSE {"name", "value"}
        item == CASE name = "active_task" -> [p.item EXCEPT !.active = TRUE]
                  [] name \in field       -> [p.item EXCEPT ![name] = content]
                  [] OTHER                -> p.item
    IN [p EXCEPT !.item = item, !.mCurrentElement = content]

(* Any other closing tag may be that of a field. *)
Decode(p, name) ==
    LET content == TrimEnd(p.mCurrentElement)
        field == IF p.mInActiveTask THEN {"slot"} ELSE {"name", "value"}
        item == CASE name = "active_task" -> [p.item EXCEPT !.active = TRUE]
                  [] name \in field       -> [p.item EXCEPT ![name] = content]
                  [] OTHER                -> p.item
    IN [p EXCEPT !.item = item,
                 !.mCurrentElement = content,
                 !.mInActiveTask = @ /\ name # "active_task"]

SubEnd(kind, p, name) ==
    LET read == CASE p.item = NoItem -> p
                  [] p.item # NoItem /\ name = kind -> CloseItem(p)
                  [] OTHER           -> Decode(p, name)
    IN [read EXCEPT !.mElementStarted = FALSE]

-----------------------------------------------------------------------------
(* CcStateParser.  Its flags are set before the opening tag of an item is  *)
(* passed on, and reset after the closing one.                             *)

StateStart(name) ==
    LET in == [k \in Kinds |-> mIn[k] \/ k = name]
    IN /\ mIn' = in
       /\ parser' =
            [p \in Parsers |->
                CASE p \in Kinds /\ in[p] -> SubStart(p, parser[p], name)
                  [] p = "client_state" /\ name = "core_client_release" ->
                       CollectText(parser[p])
                  [] OTHER -> parser[p]]

(* AppVersionsParser collects text in a way of its own, and only its       *)
(* endElement reads what it has collected: see EndGoesTo.                  *)
StateCharacters(ch) ==
    parser' = [p \in Parsers |->
                  IF p = "client_state" \/ (p \in Kinds \ {"app_version"} /\ mIn[p])
                  THEN Characters(parser[p], ch)
                  ELSE parser[p]]

(* Which sub-parser is told of a closing tag inside an item: for           *)
(* application versions it is the one of applications.                     *)
EndGoesTo(kind) == IF kind = "app_version" THEN "app" ELSE kind

(* The release of the client; an empty text is not a number, and the       *)
(* exception leaves mElementStarted set.                                   *)
ReleaseEnd(p, name) ==
    LET content == TrimEnd(p.mCurrentElement)
    IN IF ~p.mElementStarted THEN p
       ELSE CASE name = "core_client_release" /\ content = <<>> ->
                   [p EXCEPT !.mCurrentElement = content]
              [] name = "core_client_release" /\ content # <<>> ->
                   [p EXCEPT !.mCurrentElement = content, !.mElementStarted = FALSE,
                             !.list = <<content>>]
              [] OTHER ->
                   [p EXCEPT !.mCurrentElement = content, !.mElementStarted = FALSE]

(* Faulty variant: the flag of the closed element is not reset. *)
KeepsFlag(name) ==
    /\ UNCHANGED mIn
    /\ parser' =
         [p \in Parsers |->
             CASE p = "client_state" -> ReleaseEnd(parser[p], name)
               [] \E k \in Kinds : mIn[k] /\ EndGoesTo(k) = p ->
                    SubEnd(p, parser[p], name)
               [] OTHER -> parser[p]]

StateEnd(name) ==
    /\ mIn' = [k \in Kinds |-> mIn[k] /\ k # name]
    /\ parser' =
         [p \in Parsers |->
             CASE p = "client_state" -> ReleaseEnd(parser[p], name)
               [] \E k \in Kinds : mIn[k] /\ EndGoesTo(k) = p ->
                    SubEnd(p, parser[p], name)
               [] OTHER -> parser[p]]

-----------------------------------------------------------------------------
(* AccountOutParser: the fields do not start a text of their own. *)

AccountFields == {"error_num", "error_msg", "authenticator"}

(* An error number of 0 is written as the empty text here. *)
NewAccount ==
    [kind |-> "account", error_num |-> <<>>, error_msg |-> <<>>,
     authenticator |-> <<>>]

(* Faulty variant: the text of the wrapper ends where a field opens. *)
AccountStartBare(p, name) ==
    IF name \in AccountFields
    THEN [p EXCEPT !.item = IF @ = NoItem THEN NewAccount ELSE @,
                   !.mElementStarted = FALSE]
    ELSE CollectText(p)

AccountStart(p, name) ==
    IF name \in AccountFields
    THEN [p EXCEPT !.item = IF @ = NoItem THEN NewAccount ELSE @]
    ELSE CollectText(p)

(* An empty text is not a number: the exception leaves error_num as it is. *)
IsDecoded(name, content) ==
    name \in AccountFields /\ (name = "error_num" => content # <<>>)

AccountEnd(p, name) ==
    LET content == TrimEnd(p.mCurrentElement)
        item == IF IsDecoded(name, content)
                THEN [p.item EXCEPT ![name] = content] ELSE p.item
    IN IF p.item = NoItem THEN [p EXCEPT !.mElementStarted = FALSE]
       ELSE [p EXCEPT !.item = item, !.mCurrentElement = content,
                      !.mElementStarted = FALSE]

-----------------------------------------------------------------------------
(* The handlers, called for a reply as the client writes it *)

startElement(name) ==
    /\ open' = Append(open, name)
    /\ text' = <<>>
    /\ \/ /\ RootIs("client_state")
          /\ StateStart(name)
       \/ /\ RootIs("account_out")
          /\ parser' = [parser EXCEPT !["account_out"] = AccountStart(@, name)]
          /\ UNCHANGED mIn
    /\ UNCHANGED result

endElement(name) ==
    /\ Inside(name)
    /\ open' = Front(open)
    /\ text' = <<>>
    /\ \/ /\ RootIs("client_state")
          /\ StateEnd(name)
       \/ /\ RootIs("account_out")
          /\ parser' = [parser EXCEPT !["account_out"] = AccountEnd(@, name)]
          /\ UNCHANGED mIn

(* A field may come once in an item, in any order. *)
Say(name) == said' = [said EXCEPT !.fields = Append(@, [name |-> name, text |-> <<>>])]

OpenItem ==
    /\ Inside("client_state")
    /\ Len(said.items) < MaxItems
    /\ \E kind \in Kinds :
          /\ startElement(kind)
          /\ said' = [said EXCEPT !.items = Append(@, NewItem(kind))]

OpenField ==
    /\ Len(said.fields) < MaxFields
    /\ \E name \in {"name", "value", "slot", "other", "core_client_release"}
                     \cup AccountFields :
          /\ CASE name \in {"name", "value", "other"} -> InItem
               [] name = "slot" -> Inside("active_task")
               [] name = "core_client_release" ->
                    /\ Inside("client_state")
                    /\ \A i \in DOMAIN said.fields : said.fields[i].name # name
               [] OTHER -> Inside("account_out")
          /\ startElement(name)
          /\ Say(name)

OpenActiveTask ==
    /\ Inside("result")
    /\ ~Last(said.items).active
    /\ startElement("active_task")
    /\ said' = [said EXCEPT !.items[Len(said.items)].active = TRUE]

(* A piece of the text of the innermost element; between the elements of   *)
(* a reply there is white space.                                           *)
IsField == open # <<>> /\ Last(open) \in
    {"name", "value", "slot", "other", "core_client_release"} \cup AccountFields

Texts == BoundedSeq({Space, Letter}, MaxText)

characters ==
    /\ open # <<>>
    /\ \E ch \in Texts \ { <<>> } :
          /\ IF IsField THEN said.length + Len(text \o ch) <= MaxText
             ELSE text = <<>> /\ ch = <<Space>>
          /\ text' = text \o ch
          /\ \/ /\ RootIs("client_state")
                /\ StateCharacters(ch)
             \/ /\ RootIs("account_out")
                /\ parser' = [parser EXCEPT !["account_out"] = Characters(@, ch)]
    /\ UNCHANGED <<open, said, mIn, result>>

(* What a field says is its text without the white space around it. *)
Trimmed(s) == TrimEnd(TrimStart(s))

CloseField ==
    /\ IsField
    /\ endElement(Last(open))
    /\ said' = [items |->
                   IF Last(open) \in {"name", "value", "slot"}
                   THEN [said.items EXCEPT ![Len(said.items)] =
                            [@ EXCEPT ![Last(open)] = Trimmed(text)]]
                   ELSE said.items,
                fields |-> [said.fields EXCEPT ![Len(said.fields)].text = Trimmed(text)],
                length |-> said.length + Len(text)]
    /\ UNCHANGED result

CloseItemOrTask ==
    /\ InItem \/ Inside("active_task")
    /\ endElement(Last(open))
    /\ UNCHANGED <<said, result>>

(* The root closes: endDocument commits the lists, parse returns. *)
endDocument ==
    /\ open = <<"client_state">> \/ open = <<"account_out">>
    /\ endElement(open[1])
    /\ result' =
         [returned |-> TRUE, root |-> open[1],
          lists |-> [k \in Kinds |-> parser'[k].list],
          release |-> parser'["client_state"].list,
          account |-> parser'["account_out"].item]
    /\ UNCHANGED said

Next ==
    \/ OpenItem \/ OpenActiveTask \/ OpenField
    \/ characters
    \/ CloseField \/ CloseItemOrTask
    \/ endDocument

Spec == Init /\ [][Next]_vars

-----------------------------------------------------------------------------
TypeOK ==
    /\ text \in Texts
    /\ mIn = [k \in Kinds |-> \E i \in DOMAIN open : open[i] = k]
    /\ \A p \in Parsers :
          /\ parser[p].mElementStarted \in BOOLEAN
          /\ parser[p].mInActiveTask \in BOOLEAN
          /\ parser[p].mCurrentElement \in Texts
          /\ parser[p].item.kind \in {"null", "account", p}
    /\ Len(said.items) <= MaxItems
    /\ Len(said.fields) <= MaxFields

Returned(root) == result.returned /\ result.root = root

(* The items of a kind, those without a name left out, in their order. *)
Listed(kind, items) ==
    LET upTo[n \in 0 .. Len(items)] ==
            IF n = 0 THEN <<>>
            ELSE IF items[n].kind = kind /\ items[n].name # <<>>
                 THEN Append(upTo[n - 1], items[n])
                 ELSE upTo[n - 1]
    IN upTo[Len(items)]

(* The lists of the parsed state are the items of the reply, in its order  *)
(* and with the fields it says, however the library cuts the texts and     *)
(* whatever other elements an item holds: the shared handlers of all the   *)
(* sub-parsers neither lose a text nor give it to another field or kind.   *)
(* Application versions are in EveryItemIsListed.                          *)
StateIsReply ==
    Returned("client_state") =>
        \A kind \in Kinds \ {"app_version"} : result.lists[kind] = Listed(kind, said.items)

(* The release of the client is the one the reply says, if it says one.    *)
(* An item after it does not change it, nor does an empty release set one. *)
Releases ==
    { said.fields[i].text : i \in
        {j \in DOMAIN said.fields : said.fields[j].name = "core_client_release"} } \ {<<>>}

ReleaseIsReply ==
    Returned("client_state") =>
        result.release = IF Releases = {} THEN <<>>
                         ELSE << CHOOSE release \in Releases : TRUE >>

(* The first field of an account reply gets its own text: the error number *)
(* of a failed lookup and the authenticator of a successful one, which     *)
(* come alone.  Later fields get that text again.                          *)
FirstFieldIsRead ==
    Returned("account_out") /\ said.fields # <<>> =>
        /\ result.account # NoItem
        /\ LET first == said.fields[1]
           IN (\A i \in DOMAIN said.fields \ {1} : said.fields[i].name # first.name)
                => result.account[first.name] = first.text

(* CcStateParser says of every sub-parser that the element is parsed by it *)
(* "in any case (must parse also closing element!)".                       *)
EveryItemIsListed ==
    Returned("client_state") =>
        \A kind \in Kinds : result.lists[kind] = Listed(kind, said.items)

=============================================================================
