-------------------------------- MODULE Hoc --------------------------------
(***************************************************************************)
(* The calculator hoc-soledad: hoc4 (expressions), hoc5 (control flow) and *)
(* src (functions and procedures).  A line is compiled by the actions of   *)
(* the grammar into words of prog[] and then run by execute(), which calls *)
(* itself for the parts of a loop, of an if and for the body of a          *)
(* function.  Numbers are integers.  DenoteExpr and DenoteStmt say what a  *)
(* line means; the machine has to agree with them.                         *)
(***************************************************************************)
EXTENDS Integers, SequencesExt, TLC

CONSTANTS NSTACK, NPROG, NFRAME,  \* sizes of stack[], prog[] and frame[]
          MaxLines                \* lines of a session

VARIABLES version,   \* "hoc4", "hoc5" or "src"
          m,         \* the machine
          meant,     \* what the line being run means
          hwindows,  \* what has gone wrong before
          nlines

hocvars == <<version, m, meant, hwindows, nlines>>

Names == {"x", "y", "f", "p"}

(***************************************************************************)
(* Lines, as the parser sees them.                                         *)
(***************************************************************************)
Num(n) == [k |-> "num", n |-> n]
Var(x) == [k |-> "var", x |-> x]
Arg(n) == [k |-> "arg", n |-> n]
Asgn(x, op, e) == [k |-> "asgn", x |-> x, op |-> op, e |-> e]
ArgAsgn(n, op, e) == [k |-> "argasgn", n |-> n, op |-> op, e |-> e]
Bin(op, l, r) == [k |-> "bin", op |-> op, l |-> l, r |-> r]
Un(op, e) == [k |-> "un", op |-> op, e |-> e]
Inc(op, x) == [k |-> "inc", op |-> op, x |-> x]
Call(f, args) == [k |-> "call", f |-> f, args |-> args]
Expr(e) == [k |-> "expr", e |-> e]
PrintExpr(e) == [k |-> "print", e |-> e]
CallProc(f, args) == [k |-> "proc", e |-> Call(f, args)]
Return(e) == [k |-> "funcret", e |-> e]
ReturnProc == [k |-> "procret"]
While(c, s) == [k |-> "while", c |-> c, s |-> s]
For(a, c, b, s) == [k |-> "for", a |-> a, c |-> c, b |-> b, s |-> s]
If(c, s) == [k |-> "if", c |-> c, s |-> s]
IfElse(c, s, t) == [k |-> "ifelse", c |-> c, s |-> s, t |-> t]
Block(ss) == [k |-> "block", ss |-> ss]
Stmt(s, needs) == [k |-> "stmt", s |-> s, needs |-> needs]   \* names it calls, with their types
Def(f, type, s, needs) == [k |-> "def", f |-> f, type |-> type, s |-> s, needs |-> needs]
Bad(e) == [k |-> "bad", e |-> e]    \* an expression and then a syntax error

\* The lines that are typed: arithmetic with its faults, control flow, and functions
\* that recurse or return out of loops.  Each version knows those of its grammar.
Func == <<"f", "FUNCTION">>
Proc == <<"p", "PROCEDURE">>
Simple ==
  {Stmt(Expr(Asgn("x", "assign", Num(3))), {}),
   Stmt(Expr(Bin("add", Un("negate", Var("x")), Bin("mul", Num(2), Var("x")))), {}),
   Stmt(Expr(Asgn("y", "assign", Bin("divop", Num(6), Bin("sub", Var("x"), Num(3))))), {}),
   Stmt(Expr(Un("bltin", Bin("power", Var("x"), Num(2)))), {}),
   Bad(Num(4))}
Control ==
  {Stmt(While(Bin("gt", Var("x"), Num(0)),
              Block(<<IfElse(Bin("eq", Bin("mod", Var("x"), Num(2)), Num(1)),
                             PrintExpr(Var("x")), PrintExpr(Un("not", Var("x")))),
                      Expr(Asgn("x", "assign", Bin("sub", Var("x"), Num(1))))>>)), {}),
   Stmt(If(Bin("or", Bin("ne", Var("x"), Num(3)), Bin("and", Num(1), Num(0))),
           PrintExpr(Bin("le", Var("x"), Num(1)))), {})}
Functions ==
  {Def("f", "FUNCTION",
       IfElse(Bin("le", Arg(1), Num(0)), Return(Num(0)),
              Return(Bin("add", Call("f", <<Bin("sub", Arg(1), Num(1))>>), Arg(1)))), {Func}),
   Def("f", "FUNCTION",
       Block(<<For(Asgn("y", "assign", Num(0)), Bin("lt", Var("y"), Num(3)), Inc("preinc", "y"),
                   While(Bin("ge", Var("y"), Arg(1)), If(Bin("eq", Var("y"), Arg(1)),
                         Return(ArgAsgn(1, "argaddeq", Var("y")))))),
               PrintExpr(Num(9))>>), {}),
   Def("p", "PROCEDURE",
       Block(<<While(Num(1), Block(<<If(Bin("lt", Var("x"), Num(2)), ReturnProc),
                                     Expr(Inc("postdec", "x")), PrintExpr(Var("x"))>>)),
               PrintExpr(Num(7))>>), {}),
   Stmt(Expr(Bin("sub", Call("f", <<Num(2)>>), Bin("mul", Num(10), Call("f", <<Num(1)>>)))), {Func}),
   Stmt(For(Asgn("y", "assign", Num(0)), Bin("lt", Var("y"), Num(2)), Asgn("y", "addeq", Num(1)),
            Block(<<CallProc("p", <<>>), PrintExpr(Call("f", <<Var("y")>>))>>)), {Func, Proc}),
   Stmt(Expr(Call("f", <<>>)), {Func})}
HocLines == [hoc4 |-> Simple, hoc5 |-> Simple \cup Control, src |-> Simple \cup Control \cup Functions]

(***************************************************************************)
(* The actions of the grammar: code(), code2, code3 and the addresses they *)
(* patch in.  Stmts are compiled for the address their code starts at.     *)
(***************************************************************************)
Ins(f) == [i |-> f, v |-> 0]
Opd(v) == [i |-> "operand", v |-> v]
STOP == [i |-> "STOP", v |-> 0]

RECURSIVE CodeExpr(_)
CodeExpr(e) ==
  CASE e.k = "num" -> <<Ins("constpush"), Opd(e.n)>>
    [] e.k = "var" -> <<Ins("varpush"), Opd(e.x), Ins("eval")>>
    [] e.k = "arg" -> <<Ins("arg"), Opd(e.n)>>
    [] e.k = "asgn" -> CodeExpr(e.e) \o <<Ins("varpush"), Opd(e.x), Ins(e.op)>>
    [] e.k = "argasgn" -> CodeExpr(e.e) \o <<Ins(e.op), Opd(e.n)>>
    [] e.k = "bin" -> CodeExpr(e.l) \o CodeExpr(e.r) \o <<Ins(e.op)>>
    [] e.k = "un" /\ e.op = "bltin" -> CodeExpr(e.e) \o <<Ins("bltin"), Opd("sqrt")>>
    [] e.k = "un" -> CodeExpr(e.e) \o <<Ins(e.op)>>
    [] e.k = "inc" -> <<Ins(e.op), Opd(e.x)>>
    [] e.k = "call" -> FlattenSeq([i \in DOMAIN e.args |-> CodeExpr(e.args[i])])
                       \o <<Ins("call"), Opd(e.f), Opd(Len(e.args))>>

Cond(e) == CodeExpr(e) \o <<STOP>>

RECURSIVE CodeStmt(_, _)
CodeStmt(s, at) ==
  CASE s.k = "expr" -> CodeExpr(s.e) \o <<Ins("xpop")>>
    [] s.k = "proc" -> CodeExpr(s.e)
    [] s.k = "print" -> CodeExpr(s.e) \o <<Ins("prexpr")>>
    [] s.k = "funcret" -> CodeExpr(s.e) \o <<Ins("funcret")>>
    [] s.k = "procret" -> <<Ins("procret")>>
    [] s.k = "while" ->
         LET body == at + 3 + Len(Cond(s.c))
             b == CodeStmt(s.s, body) \o <<STOP>>
         IN <<Ins("whilecode"), Opd(body), Opd(body + Len(b))>> \o Cond(s.c) \o b
    [] s.k = "for" ->
         LET cond == at + 5 + Len(Cond(s.a))
             post == cond + Len(Cond(s.c))
             body == post + Len(Cond(s.b))
             b == CodeStmt(s.s, body) \o <<STOP>>
         IN <<Ins("forcode"), Opd(cond), Opd(post), Opd(body), Opd(body + Len(b))>>
            \o Cond(s.a) \o Cond(s.c) \o Cond(s.b) \o b
    [] s.k \in {"if", "ifelse"} ->
         LET then == at + 4 + Len(Cond(s.c))
             t == CodeStmt(s.s, then) \o <<STOP>>
             else == then + Len(t)
             e == IF s.k = "if" THEN <<>> ELSE CodeStmt(s.t, else) \o <<STOP>>
         IN <<Ins("ifcode"), Opd(then), IF s.k = "if" THEN STOP ELSE Opd(else), Opd(else + Len(e))>>
            \o Cond(s.c) \o t \o e
    [] s.k = "block" ->
         IF s.ss = <<>> THEN <<>>
         ELSE LET first == CodeStmt(Head(s.ss), at)
              IN first \o CodeStmt(Block(Tail(s.ss)), at + Len(first))

(***************************************************************************)
(* What a line means.  r carries the variables, the arguments of the       *)
(* function being evaluated, what was printed, the last value, whether a   *)
(* return has been met and whether the line fails.                         *)
(***************************************************************************)
Bool(b) == IF b THEN 1 ELSE 0

Arith(op, a, b) ==
  CASE op = "add" -> a + b [] op = "sub" -> a - b [] op = "mul" -> a * b
    [] op = "divop" -> a \div b [] op = "mod" -> a % b [] op = "power" -> a ^ b
Compare(op, a, b) ==
  CASE op = "gt" -> a > b [] op = "lt" -> a < b [] op = "ge" -> a >= b [] op = "le" -> a <= b
    [] op = "eq" -> a = b [] op = "ne" -> a # b
    [] op = "and" -> a # 0 /\ b # 0 [] op = "or" -> a # 0 \/ b # 0
Binary(op, a, b) ==
  IF op \in {"add", "sub", "mul", "divop", "mod", "power"} THEN Arith(op, a, b)
  ELSE Bool(Compare(op, a, b))
Unary(op, a) == CASE op = "negate" -> -a [] op = "not" -> Bool(a = 0) [] op = "bltin" -> a
Updated(op, old, v) ==
  CASE op \in {"assign", "argassign"} -> v [] op \in {"addeq", "argaddeq"} -> old + v
    [] op \in {"subeq", "argsubeq"} -> old - v [] op \in {"muleq", "argmuleq"} -> old * v
Stepped(op, old) == IF op \in {"preinc", "postinc"} THEN old + 1 ELSE old - 1

Meaning(bodies, sym) ==
  [bodies |-> bodies, val |-> 0, args |-> <<>>, out |-> <<>>, ret |-> FALSE, ok |-> TRUE,
   sym |-> sym]
Bottom(r) == [r EXCEPT !.ok = FALSE]

RECURSIVE DenoteExpr(_, _), DenoteStmt(_, _), DenoteArgs(_, _, _)
DenoteArgs(es, r, vals) ==
  IF es = <<>> THEN [r EXCEPT !.args = vals]
  ELSE LET q == DenoteExpr(Head(es), r)
       IN DenoteArgs(Tail(es), q, Append(vals, q.val))
DenoteExpr(e, r) ==
  IF ~r.ok THEN r ELSE
  CASE e.k = "num" -> [r EXCEPT !.val = e.n]
    [] e.k = "var" -> IF r.sym[e.x].type = "VAR" THEN [r EXCEPT !.val = r.sym[e.x].u] ELSE Bottom(r)
    [] e.k = "arg" -> IF e.n > Len(r.args) THEN Bottom(r) ELSE [r EXCEPT !.val = r.args[e.n]]
    [] e.k = "asgn" ->
         LET q == DenoteExpr(e.e, r)
             v == Updated(e.op, q.sym[e.x].u, q.val)
         IN IF ~q.ok \/ q.sym[e.x].type \notin {"VAR", "UNDEF"} THEN Bottom(q)
            ELSE [q EXCEPT !.val = v, !.sym[e.x] = [type |-> "VAR", u |-> v]]
    [] e.k = "argasgn" ->
         LET q == DenoteExpr(e.e, r)
         IN IF ~q.ok \/ e.n > Len(q.args) THEN Bottom(q)
            ELSE LET v == Updated(e.op, q.args[e.n], q.val)
                 IN [q EXCEPT !.val = v, !.args[e.n] = v]
    [] e.k = "bin" ->
         LET l == DenoteExpr(e.l, r)
             q == DenoteExpr(e.r, l)
         IN IF ~q.ok \/ (e.op \in {"divop", "mod"} /\ q.val = 0) THEN Bottom(q)
            ELSE [q EXCEPT !.val = Binary(e.op, l.val, q.val)]
    [] e.k = "un" ->
         LET q == DenoteExpr(e.e, r)
         IN IF ~q.ok \/ (e.op = "bltin" /\ q.val < 0) THEN Bottom(q)
            ELSE [q EXCEPT !.val = Unary(e.op, q.val)]
    [] e.k = "inc" ->
         LET old == r.sym[e.x].u
         IN IF r.sym[e.x].type # "VAR" THEN Bottom(r)
            ELSE [r EXCEPT !.sym[e.x].u = Stepped(e.op, old),
                           !.val = IF e.op \in {"preinc", "predec"} THEN Stepped(e.op, old) ELSE old]
    [] e.k = "call" ->
         LET given == DenoteArgs(e.args, r, <<>>)
             q == DenoteStmt(r.bodies[e.f], given)
         IN IF ~q.ok \/ (r.sym[e.f].type = "FUNCTION" /\ ~q.ret) THEN Bottom(q)
            ELSE [q EXCEPT !.args = r.args, !.ret = FALSE]
DenoteStmt(s, r) ==
  IF ~r.ok \/ r.ret THEN r ELSE
  CASE s.k \in {"expr", "proc"} -> DenoteExpr(s.e, r)
    [] s.k = "print" -> LET q == DenoteExpr(s.e, r) IN [q EXCEPT !.out = Append(@, q.val)]
    [] s.k = "funcret" -> [DenoteExpr(s.e, r) EXCEPT !.ret = TRUE]
    [] s.k = "procret" -> [r EXCEPT !.ret = TRUE]
    [] s.k = "while" ->
         LET q == DenoteExpr(s.c, r)
         IN IF ~q.ok \/ q.val = 0 THEN q ELSE DenoteStmt(s, DenoteStmt(s.s, q))
    [] s.k = "for" ->
         DenoteStmt(While(s.c, Block(<<s.s, Expr(s.b)>>)), DenoteExpr(s.a, r))
    [] s.k \in {"if", "ifelse"} ->
         LET q == DenoteExpr(s.c, r)
         IN IF ~q.ok THEN q ELSE IF q.val # 0 THEN DenoteStmt(s.s, q)
            ELSE IF s.k = "if" THEN q ELSE DenoteStmt(s.t, q)
    [] s.k = "block" -> IF s.ss = <<>> THEN r
                         ELSE DenoteStmt(Block(Tail(s.ss)), DenoteStmt(Head(s.ss), r))

-----------------------------------------------------------------------------
(***************************************************************************)
(* The machine.  ctl holds the calls of execute() that have not returned,  *)
(* the innermost first: whilecode, forcode, ifcode and call wait there.    *)
(* u of a symbol is the union of a value and the address of a function.    *)
(***************************************************************************)
initcode(q) == [q EXCEPT !.progp = q.progbase, !.stack = <<>>, !.fp = <<>>, !.returning = FALSE,
                         !.ctl = <<>>, !.pc = 0]

Machine ==
  [prog |-> [a \in 1..NPROG |-> STOP], progp |-> 1, progbase |-> 1, pc |-> 0, stack |-> <<>>,
   fp |-> <<>>, returning |-> FALSE, ctl |-> <<>>, out |-> <<>>, state |-> "idle",
   sym |-> [x \in Names |-> [type |-> "UNDEF", u |-> 0]], bodies |-> [x \in {} |-> <<>>]]

Init ==
  /\ version \in {"hoc4", "hoc5", "src"}
  /\ m = Machine
  /\ meant = Meaning(m.bodies, m.sym)
  /\ hwindows = {} /\ nlines = 0

\* warning() and longjmp to the call of initcode in run(); why: the fault of
\* the line, a limit of the machine
execerror(q, why) == [initcode(q) EXCEPT !.state = why]

push(q, d) ==
  IF Len(q.stack) >= NSTACK THEN execerror(q, "limit") ELSE [q EXCEPT !.stack = Append(@, d)]
Popped(q, n) == SubSeq(q.stack, 1, Len(q.stack) - n)
pop(q, n) == [q EXCEPT !.stack = Popped(q, n)]
Top(q, n) == q.stack[Len(q.stack) - n]
Operand(q) == q.prog[q.pc].v
Past(q) == [q EXCEPT !.pc = @ + 1]
Frame(q) == Head(q.fp)

\* where $n of the running function is on the stack
getarg(q) == Frame(q).argn + Operand(q) - Frame(q).nargs

ret(q, vals) ==
  [q EXCEPT !.stack = SubSeq(q.stack, 1, Len(q.stack) - vals - Frame(q).nargs),
            !.pc = Frame(q).retpc, !.fp = Tail(@), !.returning = TRUE]

execute(q, at, caller) == [q EXCEPT !.pc = at, !.ctl = <<caller>> \o @]

\* a function like sqrt() or log() sets errno for what is not in its domain
errcheck(d) == d < 0

\* the instructions of hoc4, which the later versions keep
hoc4_ins(q, f) ==
  CASE f \in {"constpush", "varpush"} -> push(Past(q), Operand(q))
    [] f \in {"add", "sub", "mul", "divop", "mod", "power", "gt", "lt", "ge", "le", "eq", "ne",
              "and", "or"} ->
         IF f \in {"divop", "mod"} /\ Top(q, 0) = 0 THEN execerror(q, "fault")
         ELSE push(pop(q, 2), Binary(f, Top(q, 1), Top(q, 0)))
    [] f \in {"negate", "not"} -> push(pop(q, 1), Unary(f, Top(q, 0)))
    [] f = "bltin" -> IF errcheck(Top(q, 0)) THEN execerror(q, "fault")
                      ELSE push(pop(Past(q), 1), Unary(f, Top(q, 0)))
    [] f = "eval" -> IF q.sym[Top(q, 0)].type # "VAR" THEN execerror(q, "fault")
                     ELSE push(pop(q, 1), q.sym[Top(q, 0)].u)
    [] f \in {"assign", "addeq", "subeq", "muleq"} ->
         LET x == Top(q, 0)
             v == Updated(f, q.sym[x].u, Top(q, 1))
         IN IF q.sym[x].type \notin {"VAR", "UNDEF"} THEN execerror(q, "fault")
            ELSE push([pop(q, 2) EXCEPT !.sym[x] = [type |-> "VAR", u |-> v]], v)
    [] f = "xpop" -> pop(q, 1)
    [] f \in {"printtop", "prexpr"} -> [pop(q, 1) EXCEPT !.out = Append(@, Top(q, 0))]

\* hoc5 adds whilecode and ifcode, which run their parts with execute()
hoc5_ins(q, f) ==
  CASE f = "whilecode" -> execute(q, q.pc + 2, [k |-> "while", at |-> "cond", save |-> q.pc])
    [] f = "ifcode" -> execute(q, q.pc + 3, [k |-> "if", at |-> "cond", save |-> q.pc])
    [] OTHER -> hoc4_ins(q, f)

call(q) ==
  LET f == Operand(q)
  IN IF Len(q.fp) >= NFRAME - 1 THEN execerror(q, "limit")
     ELSE execute([q EXCEPT !.fp = <<[sp |-> f, nargs |-> q.prog[q.pc + 1].v, retpc |-> q.pc + 2,
                                      argn |-> Len(q.stack)]>> \o @],
                  q.sym[f].u, [k |-> "call", at |-> "body", save |-> q.pc])

funcret(q) ==
  IF q.sym[Frame(q).sp].type = "PROCEDURE" THEN execerror(q, "fault")
  ELSE push(ret(q, 1), Top(q, 0))
procret(q) ==
  IF q.sym[Frame(q).sp].type = "FUNCTION" THEN execerror(q, "fault") ELSE ret(q, 0)

\* src adds for, functions with arguments, and the operators that update
src_ins(q, f) ==
  CASE f = "forcode" -> execute(q, q.pc + 4, [k |-> "for", at |-> "pre", save |-> q.pc])
    [] f = "call" -> call(q)
    [] f = "funcret" -> funcret(q)
    [] f = "procret" -> procret(q)
    [] f = "arg" -> IF Operand(q) > Frame(q).nargs THEN execerror(q, "fault")
                    ELSE push(Past(q), q.stack[getarg(q)])
    [] f \in {"argassign", "argaddeq", "argsubeq", "argmuleq"} ->
         IF Operand(q) > Frame(q).nargs THEN execerror(q, "fault")
         ELSE LET v == Updated(f, q.stack[getarg(q)], Top(q, 0))
              IN push([pop(Past(q), 1) EXCEPT !.stack[getarg(q)] = v], v)
    [] f \in {"preinc", "predec", "postinc", "postdec"} ->
         LET x == Operand(q)
             v == Stepped(f, q.sym[x].u)
         IN IF q.sym[x].type # "VAR" THEN execerror(q, "fault")
            ELSE push([Past(q) EXCEPT !.sym[x].u = v],
                      IF f \in {"preinc", "predec"} THEN v ELSE q.sym[x].u)
    [] OTHER -> hoc5_ins(q, f)

Goto(q, a) == [q EXCEPT !.pc = q.prog[a].v]

\* execute() has returned to whilecode, ifcode, forcode or call
whilecode(q, c) ==
  IF c.at = "cond"
  THEN IF Top(q, 0) # 0 THEN execute(pop(q, 1), q.prog[c.save].v, [c EXCEPT !.at = "body"])
       ELSE Goto(pop(q, 1), c.save + 1)
  ELSE IF q.returning THEN q ELSE execute(q, c.save + 2, [c EXCEPT !.at = "cond"])

\* pc is set although a return has set it
ifcode_always(q, c) ==
  IF c.at = "cond"
  THEN IF Top(q, 0) # 0 THEN execute(pop(q, 1), q.prog[c.save].v, [c EXCEPT !.at = "part"])
       ELSE IF q.prog[c.save + 1] # STOP
            THEN execute(pop(q, 1), q.prog[c.save + 1].v, [c EXCEPT !.at = "part"])
            ELSE Goto(pop(q, 1), c.save + 2)
  ELSE Goto(q, c.save + 2)

ifcode(q, c) ==
  IF c.at = "cond"
  THEN IF Top(q, 0) # 0 THEN execute(pop(q, 1), q.prog[c.save].v, [c EXCEPT !.at = "part"])
       ELSE IF q.prog[c.save + 1] # STOP
            THEN execute(pop(q, 1), q.prog[c.save + 1].v, [c EXCEPT !.at = "part"])
            ELSE Goto(pop(q, 1), c.save + 2)
  ELSE IF q.returning THEN q ELSE Goto(q, c.save + 2)

forcode(q, c) ==
  CASE c.at \in {"pre", "post"} ->
         execute(pop(q, 1), q.prog[c.save].v, [c EXCEPT !.at = "cond"])
    [] c.at = "cond" ->
         IF Top(q, 0) # 0 THEN execute(pop(q, 1), q.prog[c.save + 2].v, [c EXCEPT !.at = "body"])
         ELSE Goto(pop(q, 1), c.save + 3)
    [] c.at = "body" ->
         IF q.returning THEN q ELSE execute(q, q.prog[c.save + 1].v, [c EXCEPT !.at = "post"])

resume(q) ==
  LET c == Head(q.ctl)
      p == [q EXCEPT !.ctl = Tail(@)]
  IN CASE c.k = "while" -> whilecode(p, c)
       [] c.k = "if" -> ifcode(p, c)
       [] c.k = "for" -> forcode(p, c)
       [] c.k = "call" -> [p EXCEPT !.returning = FALSE]
       [] c.k = "main" -> [p EXCEPT !.state = "done"]

\* one turn of the loop of execute(); an address of no code ends the program
step(q) ==
  IF q.pc \notin 1..NPROG THEN [q EXCEPT !.state = "crash"]
  ELSE LET w == q.prog[q.pc]
       IN IF w = STOP \/ q.returning THEN resume(q)
          ELSE IF w.i = "operand" THEN [q EXCEPT !.state = "crash"]
          ELSE src_ins(Past(q), w.i)

-----------------------------------------------------------------------------
\* code(): the words go to prog[] from progp on, "program too big" is an error
Fits(q, words) == q.progp + Len(words) <= NPROG + 1
code(q, words) ==
  [q EXCEPT !.prog = [a \in 1..NPROG |-> IF a - q.progp + 1 \in DOMAIN words
                                         THEN words[a - q.progp + 1] ELSE q.prog[a]],
            !.progp = @ + Len(words)]

Topline(s, at) ==
  IF s.k # "expr" THEN CodeStmt(s, at) \o <<STOP>>
  ELSE CodeExpr(s.e) \o <<Ins(IF s.e.k = "asgn" THEN "xpop" ELSE "printtop"), STOP>>
ToplineMeaning(s, r) ==
  IF s.k # "expr" THEN DenoteStmt(s, r)
  ELSE LET q == DenoteExpr(s.e, r)
       IN IF s.e.k = "asgn" THEN q ELSE [q EXCEPT !.out = Append(@, q.val)]

Known(l) == \A n \in l.needs : m.sym[n[1]].type = n[2]
Idle == m.state = "idle" /\ nlines < MaxLines
Start(q) == execute([q EXCEPT !.state = "run", !.out = <<>>], q.progbase,
                    [k |-> "main", at |-> "", save |-> 0])

\* a statement: compile it behind what is there, then run from progbase
parse_stmt(l) ==
  /\ Idle /\ l.k = "stmt" /\ Known(l)
  /\ LET words == Topline(l.s, m.progp)
     IN m' = IF Fits(m, words) THEN Start(code(m, words)) ELSE execerror(m, "limit")
  /\ meant' = IF hwindows = {} THEN ToplineMeaning(l.s, Meaning(m.bodies, m.sym)) ELSE meant
  /\ nlines' = nlines + 1
  /\ UNCHANGED <<version, hwindows>>

\* define(): the symbol gets the code, the next line starts behind it; an
\* interrupt can come between the two, one while the body is parsed leaves
\* the name a function without code
parse_defn(l) ==
  /\ Idle /\ l.k = "def"
  /\ \A n \in l.needs : n[1] # l.f => m.sym[n[1]].type = n[2]
  /\ LET words == CodeStmt(l.s, m.progp) \o <<Ins("procret")>>
         named == [m EXCEPT !.sym[l.f].type = l.type]
         coded == [code(named, words) EXCEPT !.sym[l.f].u = m.progbase,
                                             !.bodies = (l.f :> l.s) @@ @]
     IN \/ /\ Fits(m, words)
           /\ m' = [coded EXCEPT !.progbase = coded.progp]
           /\ UNCHANGED hwindows
        \/ /\ Fits(m, words)
           /\ m' = execerror(coded, "limit")
           /\ hwindows' = hwindows \cup {"torn"}
        \/ /\ m' = execerror(named, "limit")
           /\ hwindows' = hwindows \cup {"half"}
  /\ nlines' = nlines + 1
  /\ UNCHANGED <<version, meant>>

\* a line that ends in a syntax error: yyerror of src calls execerror, that of
\* hoc4 and hoc5 returns and the code of the line stays
parse_error(l) ==
  /\ Idle /\ l.k = "bad"
  /\ Fits(m, CodeExpr(l.e))
  /\ IF version = "src" THEN m' = execerror(m, "limit") /\ UNCHANGED hwindows
     ELSE m' = code(m, CodeExpr(l.e)) /\ hwindows' = hwindows \cup {"partial"}
  /\ nlines' = nlines + 1
  /\ UNCHANGED <<version, meant>>

run == m.state = "run" /\ m' = step(m) /\ UNCHANGED <<version, meant, hwindows, nlines>>

\* intcatch: SIGINT while the line runs; the older versions do not catch it
interrupt ==
  /\ m.state = "run" /\ version = "src"
  /\ m' = execerror(m, "limit")
  /\ UNCHANGED <<version, meant, hwindows, nlines>>

\* back in run() for the next line
again ==
  /\ m.state \in {"done", "fault", "limit"}
  /\ m' = [initcode(m) EXCEPT !.state = "idle"]
  /\ UNCHANGED <<version, meant, hwindows, nlines>>

Next ==
  \/ \E l \in HocLines[version] : parse_stmt(l) \/ parse_defn(l) \/ parse_error(l)
  \/ run \/ interrupt \/ again

Spec == Init /\ [][Next]_hocvars

-----------------------------------------------------------------------------
Values(sym) == [x \in Names |-> IF sym[x].type = "VAR" THEN sym[x].u ELSE 0]

\* A line that is run to its end has printed and stored what it means, fails
\* exactly when its meaning does (or at a limit of the machine), and leaves
\* nothing on the stack and no frame: the code the grammar lays out, the nested
\* calls of execute() and the flag returning fit together (code.c).  A line
\* rejected by hoc4 or hoc5, or an interrupted definition, spoils it.
HocRight ==
  hwindows = {} =>
    /\ m.state # "crash"
    /\ m.state = "fault" => ~meant.ok
    /\ m.state = "done" =>
         /\ meant.ok
         /\ m.out = meant.out
         /\ Values(m.sym) = Values(meant.sym)
         /\ m.stack = <<>> /\ m.fp = <<>> /\ ~m.returning
=============================================================================
