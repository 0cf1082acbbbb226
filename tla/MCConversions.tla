--------------------------- MODULE MCConversions ---------------------------
(***************************************************************************)
(* The conversions, side by side: every behaviour is one of one of them.   *)
(***************************************************************************)
EXTENDS ClientArithmetic, EventText, ResponseDecoding, Redaction

-----------------------------------------------------------------------------
(* Quantities and prices about the edges of a four-bit integer. *)
MCItems ==
  [Quantity : {-1, 0, 1, 2, 3, 7}, UnitPrice : {-1, 0, 1, 3, 4, 7}]

MCPurchases ==
  [items : SeqOf(MCItems, 2) \cup {<<a, b, b>> : a, b \in MCItems}, amount : {0, 1, 6, 7}]

MCHeaders ==
  {NoHeader} \cup [kind : {"seconds"}, value : 0..20] \cup [kind : {"date"}, value : -9..20]

-----------------------------------------------------------------------------
(* One to three digits, with zeros anywhere, about a point and an exponent *)
(* that put the value on both sides of every change of layout.             *)
MCNumbers ==
  [neg : BOOLEAN,
   whole : {<<"0">>, <<"5">>, <<"1", "0">>, <<"2", "0", "5">>},
   fraction : {<<>>, <<"0">>, <<"3">>, <<"0", "7">>, <<"6", "0">>},
   exponent : {-101, -100} \cup -10..-4 \cup {0, 1} \cup 16..23 \cup {99}]

MCUnits == {"A", "D83D", "D83E", "DE00", "DE01", "0001", "newline"}

(* Every unit in hexadecimal or as one writes it, and a pair spelled raw. *)
MCPieces ==
  {Piece("hex", <<unit>>) : unit \in MCUnits}
    \cup {Piece("raw", <<"A">>), Piece("short", <<"newline">>), Piece("raw", <<"D83D", "DE00">>)}

MCStrings == SeqOf(MCPieces, 4)

-----------------------------------------------------------------------------
(* A number of as many digits as a card has is a whole number as well.     *)
MCAmounts == [t \in {"0", "7", "7.0", "-2", "pan"} |->
               CASE t = "0" -> 0 [] t = "-2" -> -2 [] t = "pan" -> 4242 [] OTHER -> 7]
MCPlain   == {"0", "7", "-2", "pan"}

Text(content) == Raw("string", content)
MCNumber      == {Raw("number", "7"), Text("7.0"), Raw("number", "0"), Raw("number", "-2")}
MCBroken      == {Raw("number", "7.5"), Text("seven"), Text(""), Raw("boolean", "true"), List(<<>>)}
MCNothing     == {AbsentRaw, NullRaw}

MCInfo ==
  [method : {AbsentRaw, Text("atm")}, cardNum : {AbsentRaw, NullRaw, Text("pan"), List(<<>>)}, cardType : {AbsentRaw},
   account : {AbsentRaw, Text("pan")}, bankCode : {AbsentRaw}, cvsName : {AbsentRaw},
   code : {AbsentRaw, Text("code")}, expiredAt : {NullRaw, Text("time"), Text("seven"), Raw("number", "pan")}]

MCRow ==
  [id |-> Text("t1"), transactionHid |-> AbsentRaw, amount |-> Raw("number", "7"),
   fee |-> AbsentRaw, refundAmount |-> AbsentRaw, period |-> AbsentRaw,
   paymentMethod |-> AbsentRaw, method |-> AbsentRaw, purpose |-> AbsentRaw,
   paymentInfo |-> AbsentRaw,
   createdAt |-> Text("time"), paidAt |-> AbsentRaw]

MCTexts ==
  [json : {"string", "number"}, content : {"pan", "reference", "7"}]
    \cup {NullRaw, Text("grouped"), Raw("boolean", "true"), List(<<>>)}

(* A row that differs from the usual one in two fields at most, or in its  *)
(* paymentInfo and what is said of the method.                             *)
MCRows ==
  {Struct(row) : row \in
     {[MCRow EXCEPT !.amount = a, !.fee = f] : a, f \in MCNothing \cup MCNumber \cup MCBroken}
       \cup {[MCRow EXCEPT !.refundAmount = a, !.period = f] : a, f \in MCNothing \cup MCNumber \cup MCBroken}
       \cup {[MCRow EXCEPT !.id = i, !.transactionHid = h] :
               i, h \in {AbsentRaw, Text(""), Text("t1"), Raw("number", "7")}}
       \cup {[MCRow EXCEPT !.createdAt = t, !.paidAt = u] :
               t, u \in {NullRaw, Text(""), Text("time"), Text("seven"), Raw("number", "7"), Raw("number", "7.5")}}
       \cup {[MCRow EXCEPT !.paymentMethod = m, !.paymentInfo = i] :
               m \in {AbsentRaw, Text("applepay"), Text("linepay")},
               i \in {Struct(info) : info \in MCInfo}}
       \cup {[MCRow EXCEPT !.paymentMethod = m, !.method = n, !.purpose = p, !.paymentInfo = i] :
               m, n \in {AbsentRaw, Text("applepay"), Text("linepay"), Raw("number", "7")},
               p \in {AbsentRaw, Text("token"), Text("payment")}, i \in MCTexts}}

MCElements == {Struct(MCRow), NullRaw, Text("t1")}

MCLists == {NullRaw, Text("t1")} \cup {List(s) : s \in SeqOf(MCElements, 2)}

(* A list by itself, under one key, which may be none of the known ones,   *)
(* or beside another list.                                                 *)
Wrapper(lists, page) ==
  Struct([name \in Range(ListKeys) \cup {"other", "page"} |->
    IF name = "page" THEN page
    ELSE IF name \in DOMAIN lists THEN lists[name] ELSE AbsentRaw])

MCPageTokens == {AbsentRaw, NullRaw, Text(""), Text("p2"), Raw("number", "7")}

MCWrapped ==
  {Wrapper([name \in {key} |-> list], page) :
     key \in Range(ListKeys) \cup {"other", "none"}, list \in MCLists \cup {Struct(MCRow)},
     page \in MCPageTokens}
  \cup {Wrapper(lists, Text("p2")) : lists \in
     UNION {[keys -> {NullRaw, Text("t1"), List(<<>>), List(<<Struct(MCRow)>>),
                      List(<<Struct(MCRow), Struct(MCRow)>>)}] :
            keys \in {k \in SUBSET (Range(ListKeys) \cup {"other"}) : Cardinality(k) = 2}}}

MCTransactionData ==
  MCLists \cup {List(<<row>>) : row \in MCRows}
    \cup {List(<<Struct(MCRow), row>>) : row \in MCRows}
    \cup MCWrapped

MCSubscriptionRow(id, price, period, periods) ==
  Struct([id |-> id, amount |-> price, period |-> period,
                 numberOfPeriods |-> periods, nextChargeAt |-> NullRaw])

MCBare ==
  {MCSubscriptionRow(id, price, period, NullRaw) :
     id \in {Text("s1"), AbsentRaw}, price, period \in MCNothing \cup MCNumber \cup MCBroken}

MCSubscriptionData ==
  {Struct(bare.fields @@ [subscription |-> wrapped]) :
     bare \in {MCSubscriptionRow(id, Raw("number", "0"), AbsentRaw, Text("7")) : id \in {Text("s2"), NullRaw}},
     wrapped \in MCBare}
    \cup {Struct(bare.fields @@ [subscription |-> AbsentRaw]) : bare \in MCBare}

MCTransaction ==
  {Struct(row.fields @@ [transaction |-> AbsentRaw]) : row \in MCRows}
    \cup {Struct([MCRow EXCEPT !.id = id, !.amount = Raw("number", "0")] @@ [transaction |-> row]) :
             id \in {NullRaw, Text(""), Text("s9")}, row \in MCRows}
    \cup {NullRaw, Text("t1")}

MCStoreRow(price, period, goods, user) ==
  Struct([id |-> Text("s1"), totalAmount |-> price, period |-> period, numberOfPeriods |-> NullRaw,
          items |-> goods, user |-> user, createdAt |-> Text("time")])

MCStoreRows ==
  {MCStoreRow(price, period, NullRaw, NullRaw) : price, period \in MCNothing \cup MCNumber \cup MCBroken}
    \cup {MCStoreRow(NullRaw, NullRaw, goods, user) :
             goods, user \in {AbsentRaw, List(<<>>), Struct([name |-> NullRaw]), Text("t1")}}
    \cup {NullRaw, Text("t1")}

MCStoreData ==
  {Struct([subscriptions |-> rows, page |-> page]) :
     rows \in {AbsentRaw, NullRaw, Text("t1"), List(<<>>)}
               \cup {List(<<row>>) : row \in MCStoreRows}
               \cup {List(<<row, NullRaw>>) : row \in MCStoreRows},
     page \in {AbsentRaw, NullRaw, Text("p2"), Raw("number", "7")}}
    \cup {NullRaw, Text("t1")}

MCCreated ==
  {Struct([id |-> id, subscriptionId |-> subscriptionId]) :
     id, subscriptionId \in {AbsentRaw, NullRaw, Text(""), Text("t1"), Raw("number", "7"), List(<<>>)}}
    \cup {NullRaw, Text("t1")}

MCSubscriptionRows ==
  {Struct([id |-> id]) : id \in MCNothing \cup {Text("s1"), Raw("number", "7")}} \cup {Text("s1")}

MCPagings ==
  {AbsentRaw, NullRaw, Text("p2")}
    \cup {Struct([next |-> next]) : next \in {AbsentRaw, NullRaw, Text("p2"), Raw("number", "7")}}

MCResponses ==
  [op : {"transactions"}, data : MCTransactionData, paging : {NullRaw}]
    \cup [op : {"transaction"}, data : MCTransaction, paging : {NullRaw}]
    \cup [op : {"getSubscription", "cancelSubscription"}, data : MCSubscriptionData, paging : {NullRaw}]
    \cup [op : {"storeSubscriptions"}, data : MCStoreData, paging : {NullRaw}]
    \cup [op : {"charge", "subscribe", "checkout"}, data : MCCreated, paging : {NullRaw}]
    \cup [op : {"resources"}, paging : MCPagings,
          data : {NullRaw, Text("s1")} \cup {List(s) : s \in SeqOf(MCSubscriptionRows, 2)}]

-----------------------------------------------------------------------------
(* Trees by their paths. *)
Scalar(json, content) == [path \in {<<>>} |-> Raw(json, content)]

Tree(root, children) ==
  LET below == UNION {{<<key>> \o rest : rest \in DOMAIN children[key]} : key \in DOMAIN children}
  IN [path \in {<<>>} \cup below |->
        IF path = <<>> THEN root ELSE children[Head(path)][Tail(path)]]

Object(children) == Tree(Raw("object", ""), children)
Array(elements)  == Tree(Raw("array", ""), elements)
Null             == Scalar("null", "")

(* What a paymentInfo may hold, by itself and one level down.  A text is a *)
(* string; one number stands for those JSON has no quotes about.           *)
MCScalars ==
  {Scalar("string", t) : t \in {"pan", "grouped", "reference", "last4"}}
    \cup {Scalar("number", "pan"), Null}

MCInfos ==
  MCScalars
    \cup {Object([note |-> s]) : s \in MCScalars}
    \cup {Object([cardnum |-> s, note |-> Array([first |-> s])]) : s \in MCScalars}
    \cup {Object([token |-> s]) : s \in {Scalar("string", "reference"), Object([note |-> Null])}}

MCMethods == {Scalar("string", m) : m \in {"card", "applepay", "linepay", ""}} \cup {Null}

(* An object with up to two spellings of its method, a purpose, and a      *)
(* paymentInfo, a plain note beside it.                                    *)
MCObjects(infos, purposes) ==
  {Object([paymentinfo |-> info, method |-> m, paymentmethod |-> n, purpose |-> Scalar("string", p),
           note |-> Scalar("string", "pan")]) :
     info \in infos, m \in MCMethods, n \in MCMethods, p \in purposes}

(* One inside the paymentInfo, or the payload, of another. *)
MCNested ==
  {Object([paymentinfo |-> inner, method |-> m, note |-> inner]) :
     inner \in MCObjects({Scalar("string", t) : t \in {"pan", "grouped"}}
                           \cup {Object([note |-> Scalar("string", "grouped")])}, {"payment"}),
     m \in MCMethods}

MCPayloads ==
  MCObjects(MCInfos, {"payment", "token"}) \cup MCNested
    \cup {Array([first |-> o]) : o \in MCObjects({Scalar("string", "pan")}, {"payment"})}

MCOrders ==
  {<<"method", "paymentmethod", "purpose", "paymentinfo", "note", "cardnum", "token">>,
   <<"purpose", "note", "paymentinfo", "token", "cardnum", "paymentmethod", "method">>}

-----------------------------------------------------------------------------
Idle(machines) ==
  /\ "arithmetic" \in machines =>
       /\ phase = "idle" /\ items = <<>> /\ amount = 0 /\ position = 1 /\ total = 0
       /\ header = NoHeader /\ delay = 0
  /\ "text" \in machines => token = NoToken /\ written = <<>>
  /\ "decoding" \in machines => question = NoResponse /\ reading = <<>>
  /\ "redaction" \in machines => payload = NoPayload /\ order = <<>> /\ clean = NoPayload

MCInit ==
  \/ Init /\ Idle({"text", "decoding", "redaction"})
  \/ TextInit /\ Idle({"arithmetic", "decoding", "redaction"})
  \/ DecodingInit /\ Idle({"arithmetic", "text", "redaction"})
  \/ RedactionInit /\ Idle({"arithmetic", "text", "decoding"})

MCNext ==
  \/ Next /\ UNCHANGED textVars /\ UNCHANGED decodingVars /\ UNCHANGED redactionVars
  \/ Write /\ UNCHANGED arithmeticVars /\ UNCHANGED decodingVars /\ UNCHANGED redactionVars
  \/ Decode /\ UNCHANGED arithmeticVars /\ UNCHANGED textVars /\ UNCHANGED redactionVars
  \/ Sanitize /\ UNCHANGED arithmeticVars /\ UNCHANGED textVars /\ UNCHANGED decodingVars

MCSpec == MCInit /\ [][MCNext]_<<arithmeticVars, textVars, decodingVars, redactionVars>>
=============================================================================
