---------------------------- MODULE GoroutineLines ----------------------------
(***************************************************************************)
(* The lines of the goroutines of LianjiaServer, for proofs about them.    *)
(* The model says of a goroutine what it has still to do; the invariants   *)
(* of CallSound and SerialProofs speak of the line it is at.  Code gives   *)
(* the one for the other, and the lemmas say which lines follow which and  *)
(* what the first call of a line is.                                       *)
(***************************************************************************)
EXTENDS LianjiaServerProofs, FiniteSetTheorems, SequenceTheorems

------------------------------------------------------------------------------
(* The lines of the goroutines.                                            *)

LookupLines ==
  {"lookup", "nobody", "sorry", "why", "agent", "transfer", "other", "play"}

Lines(c, h) ==
  CASE h = "incall" ->
         IF c \in Mobile
           THEN {"accept", "newcall", "start"} \cup LookupLines
           ELSE {"accept", "bind", "newcall", "getdtmf", "start", "play"}
    [] h = "dtmf" ->
         {"find", "digits", "nodigits", "nocallee", "noext"} \cup LookupLines
    [] h = "stat" ->
         {"sorry", "why", "noanswer", "endplay", "play", "other", "gaveup",
          "end", "answer"}
    [] h = "playover" -> {"hangup"}
    [] h = "agentend" -> {"file", "check", "gaveup", "nodial", "end", "hangup"}
    [] h = "userend"  -> {"file", "check", "gaveup", "nodial", "end"}

\* agentEndCallProc hangs up in the end.
HangsUp(h, s) ==
  s \o (IF h = "agentend" THEN <<Do("ask", "hangup")>> ELSE << >>)

\* What goroutine h of call c has still to do at line l: one of these.
Code(c, h, l) ==
  CASE l = "rest"     -> {<< >>}
    [] l = "accept"   -> {InCallProc(c)}
    [] l = "bind"     -> {<<Do("bind", ""), Do("newcall", ""),
                            Do("ask", "getdtmf"), Do("start", "")>>}
    [] l = "newcall"  -> {IF c \in Mobile
                            THEN InCallProcByMobile
                            ELSE <<Do("newcall", ""), Do("ask", "getdtmf"),
                                   Do("start", "")>>}
    [] l = "getdtmf"  -> {<<Do("ask", "getdtmf"), Do("start", "")>>}
    [] l = "start"    -> {IF c \in Mobile
                            THEN <<Do("start", ""), Do("lookup", "")>>
                            ELSE <<Do("start", "")>>}
    [] l = "lookup"   -> {<<Do("lookup", "")>>}
    [] l = "nobody"   -> {<<Do("callee", ""), Play, Do("result", r)>> :
                            r \in Alike}
    [] l = "sorry"    -> {<<Play, Do("result", r)>> : r \in Alike}
    [] l = "why"      -> {<<Do("result", r)>> : r \in Alike}
    [] l = "agent"    -> {<<Do("callee", "agent"), Do("ask", "transfer")>>}
    [] l = "transfer" -> {<<Do("ask", "transfer")>>}
    [] l = "other"    -> {<<Do("result", "OTHER"), Play>>}
    [] l = "play"     -> {<<Play>>}
    [] l = "find"     -> {DtmfProc(TRUE)}
    [] l = "digits"   -> {<<Do("dtmf", "ext"), Do("lookup", "")>>}
    [] l = "nodigits" -> {DtmfProc(FALSE)}
    [] l = "nocallee" -> {<<Do("callee", ""),
                            Do("result", "NOEXT_SYS_HANGUP"), Play>>}
    [] l = "noext"    -> {<<Do("result", "NOEXT_SYS_HANGUP"), Play>>}
    [] l = "noanswer" -> {NoAnswerProc}
    [] l = "endplay"  -> {<<Do("end", ""), Play>>}
    [] l = "answer"   -> {AnswerProc}
    [] l = "file"     -> {HangsUp(h, <<Do("end", "url")>>)}
    [] l = "check"    -> {HangsUp(h, <<Do("extcheck", ""), Do("end", "")>>)}
    [] l = "gaveup"   -> {HangsUp(h, <<Do("result", "HANGUP"), Do("end", "")>>)}
    [] l = "nodial"   -> {HangsUp(h, <<Do("result", "NOEXT_USER_HANGUP"),
                                       Do("end", "")>>)}
    [] l = "end"      -> {HangsUp(h, <<Do("end", "")>>)}
    [] l = "hangup"   -> {<<Do("ask", "hangup")>>}

\* The call made at a line.
First(l) ==
  CASE l = "accept"   -> {Do("ask", "accept")}
    [] l = "bind"     -> {Do("bind", "")}
    [] l = "newcall"  -> {Do("newcall", "")}
    [] l = "getdtmf"  -> {Do("ask", "getdtmf")}
    [] l = "start"    -> {Do("start", "")}
    [] l = "lookup"   -> {Do("lookup", "")}
    [] l \in {"nobody", "nocallee"} -> {Do("callee", "")}
    [] l \in {"sorry", "play"} -> {Play}
    [] l = "why"      -> {Do("result", r) : r \in Alike}
    [] l = "agent"    -> {Do("callee", "agent")}
    [] l = "transfer" -> {Do("ask", "transfer")}
    [] l = "other"    -> {Do("result", "OTHER")}
    [] l \in {"find", "nodigits"} -> {Do("find", "")}
    [] l = "digits"   -> {Do("dtmf", "ext")}
    [] l = "noext"    -> {Do("result", "NOEXT_SYS_HANGUP")}
    [] l = "noanswer" -> {Do("result", "NO_ANSWER")}
    [] l \in {"endplay", "end"} -> {Do("end", "")}
    [] l = "answer"   -> {Do("answer", "ANSWERED")}
    [] l = "file"     -> {Do("end", "url")}
    [] l = "check"    -> {Do("extcheck", "")}
    [] l = "gaveup"   -> {Do("result", "HANGUP")}
    [] l = "nodial"   -> {Do("result", "NOEXT_USER_HANGUP")}
    [] l = "hangup"   -> {Do("ask", "hangup")}

\* The line after it, when the goroutine just proceeds.
After(c, h, l) ==
  CASE l = "accept"   -> IF c \in Mobile THEN "newcall" ELSE "bind"
    [] l = "bind"     -> "newcall"
    [] l = "newcall"  -> IF c \in Mobile THEN "start" ELSE "getdtmf"
    [] l = "getdtmf"  -> "start"
    [] l = "start"    -> IF c \in Mobile THEN "lookup" ELSE "rest"
    [] l = "nobody"   -> "sorry"
    [] l = "sorry"    -> "why"
    [] l = "agent"    -> "transfer"
    [] l \in {"other", "noext", "endplay"} -> "play"
    [] l = "find"     -> "digits"
    [] l = "digits"   -> "lookup"
    [] l = "nodigits" -> "nocallee"
    [] l = "nocallee" -> "noext"
    [] l = "noanswer" -> "endplay"
    [] l \in {"check", "gaveup", "nodial"} -> "end"
    [] l \in {"file", "end"} ->
         IF h = "agentend" THEN "hangup" ELSE "rest"
    [] OTHER -> "rest"

EndReason == {"HANGUP", "NOEXT_USER_HANGUP"}

AllLines ==
  LookupLines \cup
  {"accept", "bind", "newcall", "getdtmf", "start", "find", "digits",
   "nodigits", "nocallee", "noext", "noanswer", "endplay", "answer", "file",
   "check", "gaveup", "nodial", "end", "hangup"}

\* The lines of a goroutine, one by one, for the steps that need them all.
LineFacts(c, h, l) ==
  /\ h = "incall" =>
       l \in {"rest", "accept", "bind", "newcall", "getdtmf", "start",
              "lookup", "nobody", "sorry", "why", "agent", "transfer",
              "other", "play"}
  /\ h = "incall" /\ c \in Mobile => l \notin {"bind", "getdtmf"}
  /\ h = "incall" /\ c \notin Mobile =>
       l \in {"rest", "accept", "bind", "newcall", "getdtmf", "start", "play"}
  /\ h = "dtmf" =>
       l \in {"rest", "find", "digits", "nodigits", "nocallee", "noext",
              "lookup", "nobody", "sorry", "why", "agent", "transfer",
              "other", "play"}
  /\ h = "stat" =>
       l \in {"rest", "sorry", "why", "noanswer", "endplay", "play", "other",
              "gaveup", "end", "answer"}
  /\ h = "playover" => l \in {"rest", "hangup"}
  /\ h = "agentend" =>
       l \in {"rest", "file", "check", "gaveup", "nodial", "end", "hangup"}
  /\ h = "userend" =>
       l \in {"rest", "file", "check", "gaveup", "nodial", "end"}
  /\ h \in {"incall", "dtmf", "stat", "playover", "agentend", "userend"}

LEMMA LinesOf ==
  ASSUME NEW c, NEW h \in Handler, NEW l \in Lines(c, h) \cup {"rest"}
  PROVE  LineFacts(c, h, l)
<1>1. CASE h = "incall" /\ c \in Mobile
  BY <1>1 DEF LineFacts, Lines, LookupLines
<1>2. CASE h = "incall" /\ c \notin Mobile
  BY <1>2 DEF LineFacts, Lines, LookupLines
<1>3. CASE h = "dtmf"
  BY <1>3 DEF LineFacts, Lines, LookupLines
<1>4. CASE h = "stat"
  BY <1>4 DEF LineFacts, Lines, LookupLines
<1>5. CASE h = "playover"
  BY <1>5 DEF LineFacts, Lines, LookupLines
<1>6. CASE h = "agentend"
  BY <1>6 DEF LineFacts, Lines, LookupLines
<1>7. CASE h = "userend"
  BY <1>7 DEF LineFacts, Lines, LookupLines
<1>8. QED
  BY <1>1, <1>2, <1>3, <1>4, <1>5, <1>6, <1>7 DEF Handler

AfterFacts(c, h, l, m) ==
  /\ l = "accept" => m = IF c \in Mobile THEN "newcall" ELSE "bind"
  /\ l = "bind" => m = "newcall"
  /\ l = "newcall" => m = IF c \in Mobile THEN "start" ELSE "getdtmf"
  /\ l = "getdtmf" => m = "start"
  /\ l = "start" => m = IF c \in Mobile THEN "lookup" ELSE "rest"
  /\ l = "nobody" => m = "sorry"
  /\ l = "sorry" => m = "why"
  /\ l = "agent" => m = "transfer"
  /\ l \in {"other", "noext", "endplay"} => m = "play"
  /\ l = "find" => m = "digits"
  /\ l = "digits" => m = "lookup"
  /\ l = "nodigits" => m = "nocallee"
  /\ l = "nocallee" => m = "noext"
  /\ l = "noanswer" => m = "endplay"
  /\ l \in {"check", "gaveup", "nodial"} => m = "end"
  /\ l \in {"file", "end"} => m = IF h = "agentend" THEN "hangup" ELSE "rest"
  /\ l \in {"why", "lookup", "transfer", "play", "answer", "hangup"} => m = "rest"

LEMMA AfterIs ==
  ASSUME NEW c, NEW h, NEW l
  PROVE  AfterFacts(c, h, l, After(c, h, l))
BY DEF After, AfterFacts

LEMMA LinesOfAll ==
  ASSUME NEW c, NEW h \in Handler, NEW l \in Lines(c, h)
  PROVE  l \in AllLines
BY DEF Handler, Lines, AllLines, LookupLines

\* The heads and tails of tuples.
LEMMA Parts1 ==
  \A a : <<a>> # << >> /\ Head(<<a>>) = a /\ Tail(<<a>>) = << >>
OBVIOUS

LEMMA Parts2 ==
  \A a, b :
    <<a, b>> # << >> /\ Head(<<a, b>>) = a /\ Tail(<<a, b>>) = <<b>>
OBVIOUS

LEMMA Parts3 ==
  \A a, b, d :
    /\ <<a, b, d>> # << >> /\ Head(<<a, b, d>>) = a
    /\ Tail(<<a, b, d>>) = <<b, d>>
OBVIOUS

LEMMA Parts4 ==
  \A a, b, d, e :
    /\ <<a, b, d, e>> # << >> /\ Head(<<a, b, d, e>>) = a
    /\ Tail(<<a, b, d, e>>) = <<b, d, e>>
OBVIOUS

LEMMA HeadAndTailOfJoined ==
  ASSUME NEW S, NEW s \in Seq(S), s # << >>, NEW t \in Seq(S)
  PROVE  /\ s \o t # << >> /\ Head(s \o t) = Head(s)
         /\ Tail(s \o t) = Tail(s) \o t
<1> DEFINE u == s \o t
<1>1. /\ u \in Seq(S) /\ Len(u) = Len(s) + Len(t)
      /\ \A i \in 1 .. Len(s) : u[i] = s[i]
      /\ \A i \in 1 .. Len(t) : u[Len(s) + i] = t[i]
      /\ Len(s) \in Nat \ {0} /\ Len(t) \in Nat
  OBVIOUS
<1>2. /\ Tail(s) \in Seq(S) /\ Len(Tail(s)) = Len(s) - 1
      /\ \A i \in 1 .. Len(s) - 1 : Tail(s)[i] = s[i + 1]
      /\ Head(s) = s[1]
  BY HeadTailProperties
<1> HIDE DEF u
<1>3. u # << >>
  BY <1>1
<1>4. /\ Tail(u) \in Seq(S) /\ Len(Tail(u)) = Len(u) - 1
      /\ \A i \in 1 .. Len(u) - 1 : Tail(u)[i] = u[i + 1]
      /\ Head(u) = u[1]
  BY <1>1, <1>3, HeadTailProperties
<1> DEFINE v == Tail(s)
           w == Tail(u)
<1>5. w = v \o t
  <2>1. /\ v \in Seq(S) /\ w \in Seq(S)
        /\ Len(v) = Len(s) - 1 /\ Len(w) = Len(v) + Len(t)
        /\ v \o t \in Seq(S) /\ Len(v \o t) = Len(w)
    BY <1>1, <1>2, <1>4
  <2>2. \A i \in 1 .. Len(v) : w[i] = v[i]
    BY <1>1, <1>2, <1>4
  <2>3. \A i \in 1 .. Len(t) : w[Len(v) + i] = t[i]
    BY <1>1, <1>2, <1>4
  <2> HIDE DEF v, w
  <2>4. QED
    <3>1. \A i \in 1 .. Len(w) : w[i] = (v \o t)[i]
      <4> SUFFICES ASSUME NEW i \in 1 .. Len(w)
                   PROVE  w[i] = (v \o t)[i]
        OBVIOUS
      <4>1. CASE i <= Len(v)
        BY <2>1, <2>2, <4>1
      <4>2. CASE i > Len(v)
        <5>1. /\ i - Len(v) \in 1 .. Len(t) /\ i = Len(v) + (i - Len(v))
              /\ (v \o t)[i] = t[i - Len(v)]
          BY <2>1, <4>2
        <5>2. QED
          BY <2>3, <5>1
      <4>3. QED
        BY <2>1, <4>1, <4>2
    <3>2. QED
      BY <2>1, <3>1, SeqEqual
<1>6. QED
  BY <1>1, <1>2, <1>3, <1>4, <1>5 DEF u

LEMMA ThenTheRest ==
  ASSUME NEW S, NEW a \in S, NEW t \in Seq(S)
  PROVE  <<a>> \o t # << >> /\ Head(<<a>> \o t) = a /\ Tail(<<a>> \o t) = t
<1>1. <<a>> \in Seq(S) /\ <<a>> # << >> /\ Head(<<a>>) = a /\ Tail(<<a>>) = << >>
  OBVIOUS
<1>2. << >> \o t = t
  BY ConcatEmptySeq
<1>3. QED
  BY <1>1, <1>2, HeadAndTailOfJoined

LEMMA Joined ==
  \A s, t \in Seq(Instr) :
    s # << >> => /\ s \o t # << >> /\ Head(s \o t) = Head(s)
                 /\ Tail(s \o t) = Tail(s) \o t
BY HeadAndTailOfJoined

\* A goroutine makes the call of its line and proceeds to the next one.
LEMMA Listing ==
  ASSUME NEW c, NEW h \in Handler, NEW l \in Lines(c, h), NEW s \in Code(c, h, l)
  PROVE  /\ s # << >> /\ Head(s) \in First(l)
         /\ Tail(s) \in Code(c, h, After(c, h, l))
<1> DEFINE X == IF h = "agentend" THEN <<Do("ask", "hangup")>> ELSE << >>
<1>1. /\ \A o \in {"newcall", "start", "bind", "lookup", "extcheck", "end"} :
           Do(o, "") \in Instr
      /\ \A r \in {"accept", "getdtmf", "hangup"} : Do("ask", r) \in Instr
      /\ \A r \in EndReason : Do("result", r) \in Instr
      /\ Do("end", "url") \in Instr
  BY DEF Do, Instr, Request, Result, EndReason
<1>2. X \in Seq(Instr) /\ << >> \o X = X
  <2>1. Do("ask", "hangup") \in Instr /\ X \in Seq(Instr)
    BY <1>1, Tuples
  <2>2. QED
    BY <2>1, ConcatEmptySeq
<1> HIDE DEF X
<1>3. CASE l = "accept"
  <2> DEFINE t == IF c \in Mobile
                    THEN InCallProcByMobile
                    ELSE <<Do("bind", ""), Do("newcall", ""),
                           Do("ask", "getdtmf"), Do("start", "")>>
  <2>1. Do("ask", "accept") \in Instr /\ t \in Seq(Instr)
    BY <1>1, Tuples DEF InCallProcByMobile
  <2>2. s = <<Do("ask", "accept")>> \o t
    BY <1>3 DEF Code, InCallProc
  <2>3. t \in Code(c, h, After(c, h, l))
    <3>1. CASE c \in Mobile
      <4>1. t \in Code(c, h, "newcall")
        BY <3>1 DEF Code
      <4>2. QED
        BY <1>3, <3>1, <4>1 DEF After
    <3>2. CASE c \notin Mobile
      <4>1. t \in Code(c, h, "bind")
        BY <3>2 DEF Code
      <4>2. QED
        BY <1>3, <3>2, <4>1 DEF After
    <3>3. QED
      BY <3>1, <3>2
  <2> HIDE DEF t
  <2>4. QED
    BY <1>3, <2>1, <2>2, <2>3, ThenTheRest DEF First
<1>4. CASE l = "bind"
  <2>0. c \notin Mobile
    BY <1>4 DEF Lines, Handler, LookupLines
  <2>1. s = <<Do("bind", ""), Do("newcall", ""), Do("ask", "getdtmf"),
        Do("start", "")>>
    BY <1>4 DEF Code
  <2>2. /\ s # << >> /\ Head(s) = Do("bind", "")
        /\ Tail(s) = <<Do("newcall", ""), Do("ask", "getdtmf"),
                      Do("start", "")>>
    BY <2>1, Parts4, Zenon
  <2>3. <<Do("newcall", ""), Do("ask", "getdtmf"),
          Do("start", "")>> \in Code(c, h, "newcall")
    BY <2>0 DEF Code
  <2>4. QED
    BY <1>4, <2>0, <2>2, <2>3 DEF First, After
<1>5. CASE l = "newcall" /\ c \in Mobile
  <2>1. s = <<Do("newcall", ""), Do("start", ""), Do("lookup", "")>>
    BY <1>5 DEF Code, InCallProcByMobile
  <2>2. /\ s # << >> /\ Head(s) = Do("newcall", "")
        /\ Tail(s) = <<Do("start", ""), Do("lookup", "")>>
    BY <2>1, Parts3, Zenon
  <2>3. <<Do("start", ""), Do("lookup", "")>> \in Code(c, h, "start")
    BY <1>5 DEF Code
  <2>4. QED
    BY <1>5, <2>2, <2>3 DEF First, After
<1>6. CASE l = "newcall" /\ c \notin Mobile
  <2>1. s = <<Do("newcall", ""), Do("ask", "getdtmf"), Do("start", "")>>
    BY <1>6 DEF Code
  <2>2. /\ s # << >> /\ Head(s) = Do("newcall", "")
        /\ Tail(s) = <<Do("ask", "getdtmf"), Do("start", "")>>
    BY <2>1, Parts3, Zenon
  <2>3. <<Do("ask", "getdtmf"), Do("start", "")>> \in Code(c, h, "getdtmf")
    BY DEF Code
  <2>4. QED
    BY <1>6, <2>2, <2>3 DEF First, After
<1>7. CASE l = "getdtmf"
  <2>0. c \notin Mobile
    BY <1>7 DEF Lines, Handler, LookupLines
  <2>1. s = <<Do("ask", "getdtmf"), Do("start", "")>>
    BY <1>7 DEF Code
  <2>2. /\ s # << >> /\ Head(s) = Do("ask", "getdtmf")
        /\ Tail(s) = <<Do("start", "")>>
    BY <2>1, Parts2, Zenon
  <2>3. <<Do("start", "")>> \in Code(c, h, "start")
    BY <2>0 DEF Code
  <2>4. QED
    BY <1>7, <2>0, <2>2, <2>3 DEF First, After
<1>8. CASE l = "start" /\ c \in Mobile
  <2>1. s = <<Do("start", ""), Do("lookup", "")>>
    BY <1>8 DEF Code
  <2>2. s # << >> /\ Head(s) = Do("start", "") /\ Tail(s) = <<Do("lookup", "")>>
    BY <2>1, Parts2, Zenon
  <2>3. <<Do("lookup", "")>> \in Code(c, h, "lookup")
    BY DEF Code
  <2>4. QED
    BY <1>8, <2>2, <2>3 DEF First, After
<1>9. CASE l = "start" /\ c \notin Mobile
  <2>1. s = <<Do("start", "")>>
    BY <1>9 DEF Code
  <2>2. s # << >> /\ Head(s) = Do("start", "") /\ Tail(s) = << >>
    BY <2>1, Parts1, Zenon
  <2>3. << >> \in Code(c, h, "rest")
    BY DEF Code
  <2>4. QED
    BY <1>9, <2>2, <2>3 DEF First, After
<1>10. CASE l = "lookup"
  <2>1. s = <<Do("lookup", "")>>
    BY <1>10 DEF Code
  <2>2. s # << >> /\ Head(s) = Do("lookup", "") /\ Tail(s) = << >>
    BY <2>1, Parts1, Zenon
  <2>3. << >> \in Code(c, h, "rest")
    BY <1>10 DEF Code
  <2>4. QED
    BY <1>10, <2>2, <2>3 DEF First, After
<1>11. CASE l = "nobody"
  <2>1. PICK r \in Alike : s = <<Do("callee", ""), Play, Do("result", r)>>
    BY <1>11 DEF Code
  <2>2. /\ s # << >> /\ Head(s) = Do("callee", "")
        /\ Tail(s) = <<Play, Do("result", r)>>
    BY <2>1, Parts3, Zenon
  <2>3. <<Play, Do("result", r)>> \in Code(c, h, "sorry")
    BY <1>11 DEF Code
  <2>4. QED
    BY <1>11, <2>2, <2>3 DEF First, After
<1>12. CASE l = "sorry"
  <2>1. PICK r \in Alike : s = <<Play, Do("result", r)>>
    BY <1>12 DEF Code
  <2>2. s # << >> /\ Head(s) = Play /\ Tail(s) = <<Do("result", r)>>
    BY <2>1, Parts2, Zenon
  <2>3. <<Do("result", r)>> \in Code(c, h, "why")
    BY <1>12 DEF Code
  <2>4. QED
    BY <1>12, <2>2, <2>3 DEF First, After
<1>13. CASE l = "why"
  <2>1. PICK r \in Alike : s = <<Do("result", r)>>
    BY <1>13 DEF Code
  <2>2. s # << >> /\ Head(s) = Do("result", r) /\ Tail(s) = << >>
    BY <2>1, Parts1, Zenon
  <2>3. << >> \in Code(c, h, "rest")
    BY <1>13 DEF Code
  <2>4. QED
    BY <1>13, <2>2, <2>3 DEF First, After
<1>14. CASE l = "agent"
  <2>1. s = <<Do("callee", "agent"), Do("ask", "transfer")>>
    BY <1>14 DEF Code
  <2>2. /\ s # << >> /\ Head(s) = Do("callee", "agent")
        /\ Tail(s) = <<Do("ask", "transfer")>>
    BY <2>1, Parts2, Zenon
  <2>3. <<Do("ask", "transfer")>> \in Code(c, h, "transfer")
    BY <1>14 DEF Code
  <2>4. QED
    BY <1>14, <2>2, <2>3 DEF First, After
<1>15. CASE l = "transfer"
  <2>1. s = <<Do("ask", "transfer")>>
    BY <1>15 DEF Code
  <2>2. s # << >> /\ Head(s) = Do("ask", "transfer") /\ Tail(s) = << >>
    BY <2>1, Parts1, Zenon
  <2>3. << >> \in Code(c, h, "rest")
    BY <1>15 DEF Code
  <2>4. QED
    BY <1>15, <2>2, <2>3 DEF First, After
<1>16. CASE l = "other"
  <2>1. s = <<Do("result", "OTHER"), Play>>
    BY <1>16 DEF Code
  <2>2. s # << >> /\ Head(s) = Do("result", "OTHER") /\ Tail(s) = <<Play>>
    BY <2>1, Parts2, Zenon
  <2>3. <<Play>> \in Code(c, h, "play")
    BY <1>16 DEF Code
  <2>4. QED
    BY <1>16, <2>2, <2>3 DEF First, After
<1>17. CASE l = "play"
  <2>1. s = <<Play>>
    BY <1>17 DEF Code
  <2>2. s # << >> /\ Head(s) = Play /\ Tail(s) = << >>
    BY <2>1, Parts1, Zenon
  <2>3. << >> \in Code(c, h, "rest")
    BY <1>17 DEF Code
  <2>4. QED
    BY <1>17, <2>2, <2>3 DEF First, After
<1>18. CASE l = "find"
  <2>1. s = <<Do("find", ""), Do("dtmf", "ext"), Do("lookup", "")>>
    BY <1>18 DEF Code, DtmfProc
  <2>2. /\ s # << >> /\ Head(s) = Do("find", "")
        /\ Tail(s) = <<Do("dtmf", "ext"), Do("lookup", "")>>
    BY <2>1, Parts3, Zenon
  <2>3. <<Do("dtmf", "ext"), Do("lookup", "")>> \in Code(c, h, "digits")
    BY <1>18 DEF Code
  <2>4. QED
    BY <1>18, <2>2, <2>3 DEF First, After
<1>19. CASE l = "digits"
  <2>1. s = <<Do("dtmf", "ext"), Do("lookup", "")>>
    BY <1>19 DEF Code
  <2>2. /\ s # << >> /\ Head(s) = Do("dtmf", "ext")
        /\ Tail(s) = <<Do("lookup", "")>>
    BY <2>1, Parts2, Zenon
  <2>3. <<Do("lookup", "")>> \in Code(c, h, "lookup")
    BY <1>19 DEF Code
  <2>4. QED
    BY <1>19, <2>2, <2>3 DEF First, After
<1>20. CASE l = "nodigits"
  <2>1. s = <<Do("find", ""), Do("callee", ""),
        Do("result", "NOEXT_SYS_HANGUP"), Play>>
    BY <1>20 DEF Code, DtmfProc
  <2>2. /\ s # << >> /\ Head(s) = Do("find", "")
        /\ Tail(s) = <<Do("callee", ""),
                      Do("result", "NOEXT_SYS_HANGUP"), Play>>
    BY <2>1, Parts4, Zenon
  <2>3. <<Do("callee", ""),
          Do("result", "NOEXT_SYS_HANGUP"), Play>> \in Code(c, h, "nocallee")
    BY <1>20 DEF Code
  <2>4. QED
    BY <1>20, <2>2, <2>3 DEF First, After
<1>21. CASE l = "nocallee"
  <2>1. s = <<Do("callee", ""), Do("result", "NOEXT_SYS_HANGUP"), Play>>
    BY <1>21 DEF Code
  <2>2. /\ s # << >> /\ Head(s) = Do("callee", "")
        /\ Tail(s) = <<Do("result", "NOEXT_SYS_HANGUP"), Play>>
    BY <2>1, Parts3, Zenon
  <2>3. <<Do("result", "NOEXT_SYS_HANGUP"), Play>> \in Code(c, h, "noext")
    BY <1>21 DEF Code
  <2>4. QED
    BY <1>21, <2>2, <2>3 DEF First, After
<1>22. CASE l = "noext"
  <2>1. s = <<Do("result", "NOEXT_SYS_HANGUP"), Play>>
    BY <1>22 DEF Code
  <2>2. /\ s # << >> /\ Head(s) = Do("result", "NOEXT_SYS_HANGUP")
        /\ Tail(s) = <<Play>>
    BY <2>1, Parts2, Zenon
  <2>3. <<Play>> \in Code(c, h, "play")
    BY <1>22 DEF Code
  <2>4. QED
    BY <1>22, <2>2, <2>3 DEF First, After
<1>23. CASE l = "noanswer"
  <2>1. s = <<Do("result", "NO_ANSWER"), Do("end", ""), Play>>
    BY <1>23 DEF Code, NoAnswerProc
  <2>2. /\ s # << >> /\ Head(s) = Do("result", "NO_ANSWER")
        /\ Tail(s) = <<Do("end", ""), Play>>
    BY <2>1, Parts3, Zenon
  <2>3. <<Do("end", ""), Play>> \in Code(c, h, "endplay")
    BY <1>23 DEF Code
  <2>4. QED
    BY <1>23, <2>2, <2>3 DEF First, After
<1>24. CASE l = "endplay"
  <2>1. s = <<Do("end", ""), Play>>
    BY <1>24 DEF Code
  <2>2. s # << >> /\ Head(s) = Do("end", "") /\ Tail(s) = <<Play>>
    BY <2>1, Parts2, Zenon
  <2>3. <<Play>> \in Code(c, h, "play")
    BY <1>24 DEF Code
  <2>4. QED
    BY <1>24, <2>2, <2>3 DEF First, After
<1>25. CASE l = "answer"
  <2>1. s = <<Do("answer", "ANSWERED")>>
    BY <1>25 DEF Code, AnswerProc
  <2>2. s # << >> /\ Head(s) = Do("answer", "ANSWERED") /\ Tail(s) = << >>
    BY <2>1, Parts1, Zenon
  <2>3. << >> \in Code(c, h, "rest")
    BY <1>25 DEF Code
  <2>4. QED
    BY <1>25, <2>2, <2>3 DEF First, After
<1>26. CASE l = "hangup"
  <2>1. s = <<Do("ask", "hangup")>>
    BY <1>26 DEF Code
  <2>2. s # << >> /\ Head(s) = Do("ask", "hangup") /\ Tail(s) = << >>
    BY <2>1, Parts1, Zenon
  <2>3. << >> \in Code(c, h, "rest")
    BY <1>26 DEF Code
  <2>4. QED
    BY <1>26, <2>2, <2>3 DEF First, After
<1>27. CASE l = "file"
  <2>1. <<Do("end", "url")>> \in Seq(Instr)
    BY <1>1, Tuples DEF EndReason
  <2>2. /\ <<Do("end", "url")>> # << >>
        /\ Head(<<Do("end", "url")>>)
             = Do("end", "url")
        /\ Tail(<<Do("end", "url")>>) = << >>
    BY Parts1, Zenon
  <2>3. s = <<Do("end", "url")>> \o X
    BY <1>27 DEF Code, HangsUp, X
  <2>4. s # << >> /\ Head(s) = Do("end", "url") /\ Tail(s) = << >> \o X
    BY <1>2, <2>1, <2>2, <2>3, Joined, Zenon
  <2>5. << >> \o X \in Code(c, h, After(c, h, l))
    <3>1. CASE h = "agentend"
      <4>1. X \in Code(c, h, "hangup")
        BY <3>1 DEF Code, X
      <4>2. QED
        BY <1>2, <1>27, <3>1, <4>1 DEF After
    <3>2. CASE h # "agentend"
      <4>1. X \in Code(c, h, "rest")
        BY <3>2 DEF Code, X
      <4>2. QED
        BY <1>2, <1>27, <3>2, <4>1 DEF After
    <3>3. QED
      BY <3>1, <3>2
  <2>6. QED
    BY <1>27, <2>4, <2>5 DEF First
<1>28. CASE l = "end"
  <2>1. <<Do("end", "")>> \in Seq(Instr)
    BY <1>1, Tuples DEF EndReason
  <2>2. /\ <<Do("end", "")>> # << >> /\ Head(<<Do("end", "")>>) = Do("end", "")
        /\ Tail(<<Do("end", "")>>) = << >>
    BY Parts1, Zenon
  <2>3. s = <<Do("end", "")>> \o X
    BY <1>28 DEF Code, HangsUp, X
  <2>4. s # << >> /\ Head(s) = Do("end", "") /\ Tail(s) = << >> \o X
    BY <1>2, <2>1, <2>2, <2>3, Joined, Zenon
  <2>5. << >> \o X \in Code(c, h, After(c, h, l))
    <3>1. CASE h = "agentend"
      <4>1. X \in Code(c, h, "hangup")
        BY <3>1 DEF Code, X
      <4>2. QED
        BY <1>2, <1>28, <3>1, <4>1 DEF After
    <3>2. CASE h # "agentend"
      <4>1. X \in Code(c, h, "rest")
        BY <3>2 DEF Code, X
      <4>2. QED
        BY <1>2, <1>28, <3>2, <4>1 DEF After
    <3>3. QED
      BY <3>1, <3>2
  <2>6. QED
    BY <1>28, <2>4, <2>5 DEF First
<1>29. CASE l = "check"
  <2>1. <<Do("extcheck", ""), Do("end", "")>> \in Seq(Instr)
    BY <1>1, Tuples DEF EndReason
  <2>2. /\ <<Do("extcheck", ""), Do("end", "")>> # << >>
        /\ Head(<<Do("extcheck", ""), Do("end", "")>>)
             = Do("extcheck", "")
        /\ Tail(<<Do("extcheck", ""), Do("end", "")>>) = <<Do("end", "")>>
    BY Parts2, Zenon
  <2>3. s = <<Do("extcheck", ""), Do("end", "")>> \o X
    BY <1>29 DEF Code, HangsUp, X
  <2>4. s # << >> /\ Head(s) = Do("extcheck", "") /\ Tail(s) = <<Do("end", "")>> \o X
    BY <1>2, <2>1, <2>2, <2>3, Joined, Zenon
  <2>5. <<Do("end", "")>> \o X \in Code(c, h, After(c, h, l))
    <3>1. Code(c, h, "end") = {<<Do("end", "")>> \o X}
      BY DEF Code, HangsUp, X
    <3>2. After(c, h, l) = "end"
      BY <1>29 DEF After
    <3>3. QED
      BY <3>1, <3>2
  <2>6. QED
    BY <1>29, <2>4, <2>5 DEF First
<1>30. CASE l = "gaveup"
  <2>1. <<Do("result", "HANGUP"), Do("end", "")>> \in Seq(Instr)
    BY <1>1, Tuples DEF EndReason
  <2>2. /\ <<Do("result", "HANGUP"), Do("end", "")>> # << >>
        /\ Head(<<Do("result", "HANGUP"), Do("end", "")>>)
             = Do("result", "HANGUP")
        /\ Tail(<<Do("result", "HANGUP"), Do("end", "")>>) = <<Do("end", "")>>
    BY Parts2, Zenon
  <2>3. s = <<Do("result", "HANGUP"), Do("end", "")>> \o X
    BY <1>30 DEF Code, HangsUp, X
  <2>4. s # << >> /\ Head(s) = Do("result", "HANGUP") /\ Tail(s) = <<Do("end", "")>> \o X
    BY <1>2, <2>1, <2>2, <2>3, Joined, Zenon
  <2>5. <<Do("end", "")>> \o X \in Code(c, h, After(c, h, l))
    <3>1. Code(c, h, "end") = {<<Do("end", "")>> \o X}
      BY DEF Code, HangsUp, X
    <3>2. After(c, h, l) = "end"
      BY <1>30 DEF After
    <3>3. QED
      BY <3>1, <3>2
  <2>6. QED
    BY <1>30, <2>4, <2>5 DEF First
<1>31. CASE l = "nodial"
  <2>1. <<Do("result", "NOEXT_USER_HANGUP"), Do("end", "")>> \in Seq(Instr)
    BY <1>1, Tuples DEF EndReason
  <2>2. /\ <<Do("result", "NOEXT_USER_HANGUP"), Do("end", "")>> # << >>
        /\ Head(<<Do("result", "NOEXT_USER_HANGUP"), Do("end", "")>>)
             = Do("result", "NOEXT_USER_HANGUP")
        /\ Tail(<<Do("result", "NOEXT_USER_HANGUP"), Do("end", "")>>) = <<Do("end", "")>>
    BY Parts2, Zenon
  <2>3. s = <<Do("result", "NOEXT_USER_HANGUP"), Do("end", "")>> \o X
    BY <1>31 DEF Code, HangsUp, X
  <2>4. s # << >> /\ Head(s) = Do("result", "NOEXT_USER_HANGUP") /\ Tail(s) = <<Do("end", "")>> \o X
    BY <1>2, <2>1, <2>2, <2>3, Joined, Zenon
  <2>5. <<Do("end", "")>> \o X \in Code(c, h, After(c, h, l))
    <3>1. Code(c, h, "end") = {<<Do("end", "")>> \o X}
      BY DEF Code, HangsUp, X
    <3>2. After(c, h, l) = "end"
      BY <1>31 DEF After
    <3>3. QED
      BY <3>1, <3>2
  <2>6. QED
    BY <1>31, <2>4, <2>5 DEF First
<1>32. QED
  BY <1>3, <1>4, <1>5, <1>6, <1>7, <1>8, <1>9, <1>10, <1>11, <1>12, <1>13,
     <1>14, <1>15, <1>16, <1>17, <1>18, <1>19, <1>20, <1>21, <1>22, <1>23,
     <1>24, <1>25, <1>26, <1>27, <1>28, <1>29, <1>30, <1>31, LinesOfAll DEF
     AllLines, LookupLines

=============================================================================
