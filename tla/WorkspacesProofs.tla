-------------------------- MODULE WorkspacesProofs --------------------------
(***************************************************************************)
(* Whatever is pressed, clicked, dragged, opened and closed, the strips    *)
(* hold each tiled window in one place, remember only windows they have,   *)
(* and keep the selected window in view: for any windows, workspaces,      *)
(* widths and scenarios.                                                   *)
(***************************************************************************)
EXTENDS Workspaces, TLAPS, WellFoundedInduction

-----------------------------------------------------------------------------
(* The inductive invariant.                                                *)

OptWindow == Windows \cup {NoWindow}
WidthSet == [kind : {"unset", "bounded", "unbounded", "full"}, offset : Int]
ColumnSet == [windows : Seq(Windows) \ {<<>>}, width : WidthSet]
Shares == Int \X Int
Places == [centred : BOOLEAN, value : Shares]
Origins == [Windows -> [anchor : OptWindow, below : BOOLEAN]]
Kinds   == {"keep", "pin", "reveal", "center", "align"}
Ways    == {"none", "either", "fromLeft", "fromRight"}
Pinned  == {"none", "rightEdge", "start", "place"}
Intents ==
    {i \in [kind : Kinds, reveal : Ways, window : OptWindow, pin : Pinned, value : Shares] :
        i.pin = "place" => i.value[2] > 0}
Sides   == {"none", "left", "right"}
Measures ==
    [laid : BOOLEAN, selected : OptWindow, share : Shares, rel : Int, slot : Int, delta : Int]
StripSet ==
    [columns : Seq(ColumnSet), selected : OptWindow, ratio : Int, offset : Int, intent : Intents,
     keptView : [window : OptWindow, side : Sides, view : Places],
     keptPlace : [window : OptWindow, place : Places], centre : OptWindow,
     measured : Measures, fullWidth : SUBSET Windows, widthOrigins : Origins, foldOrigins : Origins]

(* No window is listed twice.                                              *)
Once(columns) ==
    \A c, d \in DOMAIN columns : \A i \in DOMAIN columns[c].windows, j \in DOMAIN columns[d].windows :
        columns[c].windows[i] = columns[d].windows[j] => c = d /\ i = j

(* The selection is the strip's, if it has any window.                     *)
Led(s) == IF s.columns = <<>> THEN s.selected = NoWindow ELSE OnStrip(s, s.selected)

(* A window at full width has its column to itself.                        *)
Alone(s) == \A w \in s.fullWidth : OnStrip(s, w) /\ ~Stacked(s, w)

(* Windows are remembered to go back beside others of the strip.           *)
Beyond(s, origins) ==
    \A w \in Windows : origins[w] # NoOrigin =>
        OnStrip(s, w) /\ OnStrip(s, origins[w].anchor) /\ origins[w].anchor # w
FullOnly(s) == \A w \in Windows : s.widthOrigins[w] # NoOrigin => w \in s.fullWidth

(* The scroll is held for the selection alone.                             *)
HeldFor(s) == {s.centre, s.keptView.window, s.keptPlace.window} \subseteq {NoWindow, s.selected}

Good(s) ==
    /\ s \in StripSet /\ Once(s.columns)
    /\ Led(s) /\ Alone(s) /\ FullOnly(s) /\ Beyond(s, s.widthOrigins) /\ Beyond(s, s.foldOrigins)
    /\ HeldFor(s)

(* A share of the free space is a part of it.                              *)
Part(v) == v[2] > 0 /\ 0 <= v[1] /\ v[1] <= v[2]
Lengths(s) ==
    /\ s.measured.share = NoShare \/ Part(s.measured.share)
    /\ s.keptPlace.window # NoWindow => s.keptPlace.place.centred \/ Part(s.keptPlace.place.value)

WindowsInv ==
    /\ active \in Spaces /\ scene \in Scenarios
    /\ home \in [Windows -> Spaces \cup {Unopened, Gone}]
    /\ floating \subseteq Open /\ lastFloat \in floating \cup {NoWindow}
    /\ focused \in Open \cup {NoWindow}
    /\ memory \in [Windows -> WidthSet]
    /\ Holding => drag.x \in Int /\ drag.width \in Int

(* Each workspace's strip is sound, and has the windows that are there and *)
(* not afloat.                                                             *)
StripsAre(ss, homes, afloat) ==
    /\ ss \in [Spaces -> StripSet]
    /\ \A ws \in Spaces : /\ Good(ss[ws]) /\ Lengths(ss[ws])
                           /\ Tiled(ss[ws]) = {w \in Windows : homes[w] = ws} \ afloat
StripsInv == StripsAre(strips, home, floating)

Inv == WindowsInv /\ StripsInv

-----------------------------------------------------------------------------
(* Sequences with an element put in or taken out.                          *)

LEMMA InsertedAt ==
    ASSUME NEW C, NEW s \in Seq(C), NEW e \in C, NEW at \in 1..(Len(s) + 1)
    PROVE  /\ InsertAt(s, at, e) \in Seq(C)
           /\ Len(InsertAt(s, at, e)) = Len(s) + 1
           /\ \A i \in 1..(at - 1) : InsertAt(s, at, e)[i] = s[i]
           /\ InsertAt(s, at, e)[at] = e
           /\ \A i \in at..Len(s) : InsertAt(s, at, e)[i + 1] = s[i]
<1> DEFINE x == SubSeq(s, 1, at - 1)
           z == SubSeq(s, at, Len(s))
<1>1. x \in Seq(C) /\ Len(x) = at - 1 /\ z \in Seq(C) /\ Len(z) = Len(s) - at + 1
  OBVIOUS
<1>2. \A j \in 1..(at - 1) : x[j] = s[j]
  OBVIOUS
<1>3. \A j \in 1..(Len(s) - at + 1) : z[j] = s[at + j - 1]
  OBVIOUS
<1>4. ASSUME NEW u \in Seq(C), NEW v \in Seq(C)
      PROVE  u \o <<e>> \o v \in Seq(C) /\ Len(u \o <<e>> \o v) = Len(u) + 1 + Len(v)
  OBVIOUS
<1>5. ASSUME NEW u \in Seq(C), NEW v \in Seq(C), NEW j \in 1..(Len(u) + 1 + Len(v))
      PROVE  (u \o <<e>> \o v)[j] = IF j <= Len(u) THEN u[j] ELSE IF j = Len(u) + 1 THEN e ELSE v[j - Len(u) - 1]
  OBVIOUS
<1>6. InsertAt(s, at, e) = x \o <<e>> \o z
  BY DEF InsertAt
<1> HIDE DEF x, z
<1>7. InsertAt(s, at, e) \in Seq(C) /\ Len(InsertAt(s, at, e)) = Len(x) + 1 + Len(z)
  BY <1>1, <1>4, <1>6
<1>8. Len(x) + 1 + Len(z) = Len(s) + 1
  BY <1>1
<1>9. ASSUME NEW i \in 1..(Len(s) + 1)
      PROVE  InsertAt(s, at, e)[i] = IF i < at THEN s[i] ELSE IF i = at THEN e ELSE s[i - 1]
  <2>0. i \in 1..(Len(x) + 1 + Len(z))
    BY <1>8
  <2>1. (x \o <<e>> \o z)[i] = IF i <= Len(x) THEN x[i] ELSE IF i = Len(x) + 1 THEN e ELSE z[i - Len(x) - 1]
    BY <1>1, <1>5, <2>0
  <2>2. CASE i < at
    BY <1>1, <1>2, <1>6, <2>1, <2>2
  <2>3. CASE i = at
    BY <1>1, <1>6, <2>1, <2>3
  <2>4. CASE i > at
    <3>1. i - Len(x) - 1 \in 1..(Len(s) - at + 1) /\ at + (i - Len(x) - 1) - 1 = i - 1
      BY <1>1, <2>4
    <3> QED BY <1>1, <1>3, <1>6, <2>1, <2>4, <3>1
  <2> QED BY <2>2, <2>3, <2>4
<1>10. \A i \in 1..(at - 1) : InsertAt(s, at, e)[i] = s[i]
  BY <1>9
<1>11. InsertAt(s, at, e)[at] = e
  BY <1>9
<1>12. ASSUME NEW i \in at..Len(s) PROVE InsertAt(s, at, e)[i + 1] = s[i]
  <2>1. i + 1 \in 1..(Len(s) + 1) /\ i + 1 > at /\ (i + 1) - 1 = i
    OBVIOUS
  <2> QED BY <1>9, <2>1
<1> QED BY <1>7, <1>8, <1>10, <1>11, <1>12

LEMMA RemovedAt ==
    ASSUME NEW C, NEW s \in Seq(C), NEW at \in 1..Len(s)
    PROVE  /\ RemoveAt(s, at) \in Seq(C)
           /\ Len(RemoveAt(s, at)) = Len(s) - 1
           /\ \A i \in 1..(Len(s) - 1) : RemoveAt(s, at)[i] = IF i < at THEN s[i] ELSE s[i + 1]
<1> DEFINE x == SubSeq(s, 1, at - 1)
           z == SubSeq(s, at + 1, Len(s))
<1>1. x \in Seq(C) /\ Len(x) = at - 1 /\ z \in Seq(C) /\ Len(z) = Len(s) - at
  OBVIOUS
<1>2. \A j \in 1..(at - 1) : x[j] = s[j]
  OBVIOUS
<1>3. \A j \in 1..(Len(s) - at) : z[j] = s[at + j]
  OBVIOUS
<1>4. ASSUME NEW u \in Seq(C), NEW v \in Seq(C)
      PROVE  u \o v \in Seq(C) /\ Len(u \o v) = Len(u) + Len(v)
  OBVIOUS
<1>5. ASSUME NEW u \in Seq(C), NEW v \in Seq(C), NEW j \in 1..(Len(u) + Len(v))
      PROVE  (u \o v)[j] = IF j <= Len(u) THEN u[j] ELSE v[j - Len(u)]
  OBVIOUS
<1>6. RemoveAt(s, at) = x \o z
  BY DEF RemoveAt
<1> HIDE DEF x, z
<1>7. RemoveAt(s, at) \in Seq(C) /\ Len(RemoveAt(s, at)) = Len(x) + Len(z)
  BY <1>1, <1>4, <1>6
<1>8. Len(x) + Len(z) = Len(s) - 1
  BY <1>1
<1>9. ASSUME NEW i \in 1..(Len(s) - 1)
      PROVE  RemoveAt(s, at)[i] = IF i < at THEN s[i] ELSE s[i + 1]
  <2>1. RemoveAt(s, at)[i] = IF i <= Len(x) THEN x[i] ELSE z[i - Len(x)]
    BY <1>1, <1>5, <1>6, <1>8
  <2>2. CASE i < at
    BY <1>1, <1>2, <2>1, <2>2
  <2>3. CASE i >= at
    <3>1. i - Len(x) \in 1..(Len(s) - at) /\ at + (i - Len(x)) = i + 1
      BY <1>1, <2>3
    <3> QED BY <1>1, <1>3, <2>1, <2>3, <3>1
  <2> QED BY <2>2, <2>3
<1> QED BY <1>7, <1>8, <1>9

-----------------------------------------------------------------------------
(* Columns.                                                                *)

Among(columns) == {columns[c] : c \in DOMAIN columns}
In(k, w) == \E i \in DOMAIN k.windows : k.windows[i] = w
Single(ws) == \A i, j \in DOMAIN ws : ws[i] = ws[j] => i = j
Apart(k, columns) == \A l \in Among(columns), w \in Windows : ~(In(k, w) /\ In(l, w))

(* columns stand in order, each window once.                               *)
Arranged(columns) == columns \in Seq(ColumnSet) /\ Once(columns)

LEMMA HoldsIn == ASSUME NEW k \in ColumnSet, NEW w PROVE Holds(k, w) <=> In(k, w)
  BY DEF Holds, Contains, In, ColumnSet

LEMMA ColumnFacts ==
    ASSUME NEW columns, Arranged(columns), NEW c \in DOMAIN columns
    PROVE  /\ columns[c] \in ColumnSet /\ columns[c] \in Among(columns)
           /\ columns[c].windows \in Seq(Windows) /\ columns[c].windows # <<>> /\ Len(columns[c].windows) \in Nat \ {0}
           /\ columns[c].width \in WidthSet
           /\ Single(columns[c].windows)
<1>1. columns[c] \in ColumnSet
  BY DEF Arranged
<1>2. columns[c].windows \in Seq(Windows) /\ columns[c].windows # <<>> /\ columns[c].width \in WidthSet
  BY <1>1 DEF ColumnSet
<1>3. Len(columns[c].windows) \in Nat \ {0}
  BY <1>2
<1> QED BY <1>1, <1>2, <1>3 DEF Arranged, Once, Single, Among

(* What In and Once say of two columns.                                    *)
LEMMA OneColumn ==
    ASSUME NEW columns, Arranged(columns), NEW c \in DOMAIN columns, NEW d \in DOMAIN columns, NEW w,
           In(columns[c], w), In(columns[d], w)
    PROVE  c = d
  BY DEF Arranged, Once, In

LEMMA ColumnInserted ==
    ASSUME NEW columns, Arranged(columns), NEW k \in ColumnSet, Single(k.windows), Apart(k, columns),
           NEW at \in 1..(Len(columns) + 1), NEW new, new = InsertAt(columns, at, k)
    PROVE  /\ Arranged(new) /\ Among(new) = Among(columns) \cup {k} /\ Len(new) = Len(columns) + 1
           /\ \A i \in 1..(Len(columns) + 1) :
                 new[i] = IF i < at THEN columns[i] ELSE IF i = at THEN k ELSE columns[i - 1]
<1>1. /\ new \in Seq(ColumnSet) /\ Len(new) = Len(columns) + 1
      /\ \A i \in 1..(Len(columns) + 1) :
            new[i] = IF i < at THEN columns[i] ELSE IF i = at THEN k ELSE columns[i - 1]
  <2>1. columns \in Seq(ColumnSet)
    BY DEF Arranged
  <2>2. InsertAt(columns, at, k) \in Seq(ColumnSet)
    BY <2>1, InsertedAt
  <2>3. Len(InsertAt(columns, at, k)) = Len(columns) + 1
    BY <2>1, InsertedAt
  <2>4. \A i \in 1..(at - 1) : InsertAt(columns, at, k)[i] = columns[i]
    BY <2>1, InsertedAt
  <2>5. InsertAt(columns, at, k)[at] = k
    BY <2>1, InsertedAt
  <2>6. \A i \in at..Len(columns) : InsertAt(columns, at, k)[i + 1] = columns[i]
    BY <2>1, InsertedAt
  <2>7. ASSUME NEW i \in 1..(Len(columns) + 1), i > at PROVE InsertAt(columns, at, k)[i] = columns[i - 1]
    <3>1. i - 1 \in at..Len(columns) /\ (i - 1) + 1 = i
      BY <2>1, <2>7
    <3> QED BY <2>6, <3>1
  <2>8. at \in 1..(Len(columns) + 1) /\ Len(columns) \in Nat
    BY <2>1
  <2>9. ASSUME NEW i \in 1..(Len(columns) + 1)
        PROVE  InsertAt(columns, at, k)[i] = IF i < at THEN columns[i] ELSE IF i = at THEN k ELSE columns[i - 1]
    BY <2>4, <2>5, <2>7, <2>8
  <2> QED BY <2>2, <2>3, <2>9
<1>2. /\ columns \in Seq(ColumnSet) /\ Len(columns) \in Nat
      /\ DOMAIN columns = 1..Len(columns) /\ DOMAIN new = 1..(Len(columns) + 1)
  BY <1>1 DEF Arranged
<1> DEFINE From(i) == IF i < at THEN i ELSE i - 1
<1>3. \A i \in DOMAIN new : i # at => From(i) \in DOMAIN columns /\ new[i] = columns[From(i)]
  BY <1>1, <1>2
<1>4. \A i, j \in DOMAIN new : i # at /\ j # at /\ From(i) = From(j) => i = j
  BY <1>2
<1>5. new[at] = k /\ at \in DOMAIN new
  BY <1>1, <1>2
<1>6. Among(new) = Among(columns) \cup {k}
  <2>1. Among(new) \subseteq Among(columns) \cup {k}
    BY <1>3, <1>5 DEF Among
  <2>2. ASSUME NEW i \in DOMAIN columns PROVE columns[i] \in Among(new)
    <3>1. CASE i < at
      <4>1. i \in DOMAIN new /\ new[i] = columns[i]
        BY <1>1, <1>2, <3>1
      <4> QED BY <4>1 DEF Among
    <3>2. CASE i >= at
      <4>1. i + 1 \in DOMAIN new /\ new[i + 1] = columns[i]
        BY <1>1, <1>2, <3>2
      <4> QED BY <4>1 DEF Among
    <3> QED BY <1>2, <3>1, <3>2
  <2> QED BY <1>5, <2>1, <2>2 DEF Among
<1>7. Once(new)
  <2> SUFFICES ASSUME NEW c \in DOMAIN new, NEW d \in DOMAIN new,
                      NEW i \in DOMAIN new[c].windows, NEW j \in DOMAIN new[d].windows,
                      new[c].windows[i] = new[d].windows[j]
               PROVE  c = d /\ i = j
    BY DEF Once
  <2> HIDE DEF From
  <2>1. CASE c # at /\ d # at
    <3>1. From(c) = From(d) /\ i = j
      BY <1>3, <2>1 DEF Arranged, Once
    <3> QED BY <1>4, <2>1, <3>1
  <2>2. CASE c = at /\ d = at
    BY <1>5, <2>2 DEF Single
  <2>3. ASSUME NEW w, NEW m \in DOMAIN columns, In(columns[m], w), In(k, w) PROVE FALSE
    <3>1. w \in Windows
      BY <2>3 DEF In, ColumnSet
    <3>2. columns[m] \in Among(columns)
      BY DEF Among
    <3> QED BY <2>3, <3>1, <3>2 DEF Apart
  <2>4. CASE c = at /\ d # at
    BY <1>3, <1>5, <2>3, <2>4 DEF In
  <2>5. CASE c # at /\ d = at
    BY <1>3, <1>5, <2>3, <2>5 DEF In
  <2> QED BY <2>1, <2>2, <2>4, <2>5
<1> QED BY <1>1, <1>6, <1>7 DEF Arranged

LEMMA ColumnRemoved ==
    ASSUME NEW columns, Arranged(columns), NEW at \in DOMAIN columns, NEW new, new = RemoveAt(columns, at)
    PROVE  /\ Arranged(new) /\ Among(new) = Among(columns) \ {columns[at]} /\ Len(new) = Len(columns) - 1
           /\ \A i \in 1..(Len(columns) - 1) : new[i] = IF i < at THEN columns[i] ELSE columns[i + 1]
<1>2. columns \in Seq(ColumnSet) /\ Len(columns) \in Nat /\ DOMAIN columns = 1..Len(columns)
  BY DEF Arranged
<1>1. /\ new \in Seq(ColumnSet) /\ Len(new) = Len(columns) - 1
      /\ \A i \in 1..(Len(columns) - 1) : new[i] = IF i < at THEN columns[i] ELSE columns[i + 1]
  BY <1>2, RemovedAt
<1>3. DOMAIN new = 1..(Len(columns) - 1)
  BY <1>1, <1>2
<1> DEFINE From(i) == IF i < at THEN i ELSE i + 1
<1>4. \A i \in DOMAIN new : From(i) \in DOMAIN columns /\ new[i] = columns[From(i)] /\ From(i) # at
  BY <1>1, <1>2, <1>3
<1>5. \A i, j \in DOMAIN new : From(i) = From(j) => i = j
  BY <1>2, <1>3
<1>6. \A c, d \in DOMAIN columns : columns[c] = columns[d] => c = d
  <2> SUFFICES ASSUME NEW c \in DOMAIN columns, NEW d \in DOMAIN columns, columns[c] = columns[d] PROVE c = d
    OBVIOUS
  <2>1. 1 \in DOMAIN columns[c].windows
    <3>1. columns[c].windows \in Seq(Windows) /\ Len(columns[c].windows) \in Nat \ {0}
      BY ColumnFacts
    <3> QED BY <3>1
  <2> QED BY <2>1 DEF Arranged, Once
<1>7. Among(new) = Among(columns) \ {columns[at]}
  <2>1. Among(new) \subseteq Among(columns) \ {columns[at]}
    <3> HIDE DEF From
    <3> QED BY <1>4, <1>6 DEF Among
  <2>2. ASSUME NEW i \in DOMAIN columns, i # at PROVE columns[i] \in Among(new)
    <3>1. CASE i < at
      <4>1. i \in DOMAIN new /\ new[i] = columns[i]
        BY <1>1, <1>2, <1>3, <3>1
      <4> QED BY <4>1 DEF Among
    <3>2. CASE i > at
      <4>1. i - 1 \in DOMAIN new /\ new[i - 1] = columns[i]
        BY <1>1, <1>2, <1>3, <3>2
      <4> QED BY <4>1 DEF Among
    <3> QED BY <1>2, <2>2, <3>1, <3>2
  <2> QED BY <2>1, <2>2 DEF Among
<1>8. Once(new)
  <2> HIDE DEF From
  <2> QED BY <1>4, <1>5 DEF Arranged, Once
<1> QED BY <1>1, <1>7, <1>8 DEF Arranged

LEMMA ColumnReplaced ==
    ASSUME NEW columns, Arranged(columns), NEW at \in DOMAIN columns, NEW k \in ColumnSet, Single(k.windows),
           \A c \in DOMAIN columns, w \in Windows : In(columns[c], w) /\ In(k, w) => c = at,
           NEW new, new = [columns EXCEPT ![at] = k]
    PROVE  /\ Arranged(new) /\ Among(new) = (Among(columns) \ {columns[at]}) \cup {k}
           /\ Len(new) = Len(columns) /\ DOMAIN new = DOMAIN columns
           /\ \A i \in DOMAIN columns : new[i] = IF i = at THEN k ELSE columns[i]
<1>2. columns \in Seq(ColumnSet) /\ Len(columns) \in Nat /\ DOMAIN columns = 1..Len(columns)
  BY DEF Arranged
<1>1. /\ new \in Seq(ColumnSet) /\ Len(new) = Len(columns) /\ DOMAIN new = DOMAIN columns
      /\ \A i \in DOMAIN columns : new[i] = IF i = at THEN k ELSE columns[i]
  BY <1>2
<1>6. \A c, d \in DOMAIN columns : columns[c] = columns[d] => c = d
  <2> SUFFICES ASSUME NEW c \in DOMAIN columns, NEW d \in DOMAIN columns, columns[c] = columns[d] PROVE c = d
    OBVIOUS
  <2>1. 1 \in DOMAIN columns[c].windows
    <3>1. columns[c].windows \in Seq(Windows) /\ Len(columns[c].windows) \in Nat \ {0}
      BY ColumnFacts
    <3> QED BY <3>1
  <2> QED BY <2>1 DEF Arranged, Once
<1>3. Among(new) = (Among(columns) \ {columns[at]}) \cup {k}
  BY <1>1, <1>6 DEF Among
<1>4. Once(new)
  <2> SUFFICES ASSUME NEW c \in DOMAIN new, NEW d \in DOMAIN new,
                      NEW i \in DOMAIN new[c].windows, NEW j \in DOMAIN new[d].windows,
                      new[c].windows[i] = new[d].windows[j]
               PROVE  c = d /\ i = j
    BY DEF Once
  <2>1. CASE c # at /\ d # at
    BY <1>1, <2>1 DEF Arranged, Once
  <2>2. CASE c = at /\ d = at
    BY <1>1, <2>2 DEF Single
  <2>3. ASSUME NEW w, NEW m \in DOMAIN columns, In(columns[m], w), In(k, w) PROVE m = at
    <3>1. w \in Windows
      BY <2>3 DEF In, ColumnSet
    <3> QED BY <2>3, <3>1
  <2>4. CASE c = at /\ d # at
    BY <1>1, <2>3, <2>4 DEF In
  <2>5. CASE c # at /\ d = at
    BY <1>1, <2>3, <2>5 DEF In
  <2> QED BY <2>1, <2>2, <2>4, <2>5
<1> QED BY <1>1, <1>3, <1>4 DEF Arranged

-----------------------------------------------------------------------------
(* Where a window is.                                                      *)

LEMMA OnStripIs ==
    ASSUME NEW s, Arranged(s.columns), NEW w
    PROVE  /\ OnStrip(s, w) <=> \E k \in Among(s.columns) : In(k, w)
           /\ OnStrip(s, w) <=> \E c \in DOMAIN s.columns : In(s.columns[c], w)
           /\ OnStrip(s, w) => w \in Windows
<1>1. \A c \in DOMAIN s.columns : s.columns[c] \in ColumnSet /\ s.columns[c] \in Among(s.columns)
  BY ColumnFacts
<1>2. \A c \in DOMAIN s.columns : Holds(s.columns[c], w) <=> In(s.columns[c], w)
  BY <1>1, HoldsIn
<1>3. \A c \in DOMAIN s.columns : In(s.columns[c], w) => w \in Windows
  BY <1>1 DEF In, ColumnSet
<1> QED BY <1>2, <1>3 DEF OnStrip, Among

LEMMA WhereIs ==
    ASSUME NEW s, Arranged(s.columns), NEW w, OnStrip(s, w)
    PROVE  /\ ColumnOf(s, w) \in DOMAIN s.columns /\ Stack(s, w) = s.columns[ColumnOf(s, w)].windows
           /\ s.columns[ColumnOf(s, w)] \in Among(s.columns)
           /\ s.columns[ColumnOf(s, w)] \in ColumnSet
           /\ Stack(s, w) \in Seq(Windows) /\ Single(Stack(s, w))
           /\ In(s.columns[ColumnOf(s, w)], w)
           /\ \A d \in DOMAIN s.columns : In(s.columns[d], w) => d = ColumnOf(s, w)
           /\ RowOf(s, w) \in 1..Len(Stack(s, w)) /\ Stack(s, w)[RowOf(s, w)] = w
           /\ \A r \in DOMAIN Stack(s, w) : Stack(s, w)[r] = w => r = RowOf(s, w)
           /\ \A v : (\E r \in DOMAIN Stack(s, w) : Stack(s, w)[r] = v) <=> In(s.columns[ColumnOf(s, w)], v)
           /\ Len(Stack(s, w)) \in Nat \ {0} /\ w \in Windows
<1> DEFINE c == ColumnOf(s, w)
<1>1. \A d \in DOMAIN s.columns : s.columns[d] \in ColumnSet /\ (Holds(s.columns[d], w) <=> In(s.columns[d], w))
  BY ColumnFacts, HoldsIn
<1>2. c \in DOMAIN s.columns /\ Holds(s.columns[c], w)
  BY DEF OnStrip, ColumnOf
<1>3. In(s.columns[c], w)
  BY <1>1, <1>2
<1>4. Stack(s, w) = s.columns[c].windows
  BY DEF Stack
<1>5. /\ s.columns[c] \in Among(s.columns) /\ Stack(s, w) \in Seq(Windows) /\ Single(Stack(s, w))
      /\ Len(Stack(s, w)) \in Nat \ {0}
  BY <1>2, <1>4, ColumnFacts
<1>6. \A d \in DOMAIN s.columns : In(s.columns[d], w) => d = c
  BY <1>2, <1>3, OneColumn
<1>7. RowOf(s, w) \in DOMAIN Stack(s, w) /\ Stack(s, w)[RowOf(s, w)] = w
  BY <1>3, <1>4 DEF In, RowOf
<1>8. DOMAIN Stack(s, w) = 1..Len(Stack(s, w)) /\ w \in Windows
  BY <1>5, <1>7
<1>9. \A r \in DOMAIN Stack(s, w) : Stack(s, w)[r] = w => r = RowOf(s, w)
  BY <1>5, <1>7 DEF Single
<1> HIDE DEF c
<1>10. \A v : (\E r \in DOMAIN Stack(s, w) : Stack(s, w)[r] = v) <=> In(s.columns[c], v)
  BY <1>4 DEF In
<1>11. s.columns[c] \in ColumnSet
  BY <1>1, <1>2
<1> QED BY <1>2, <1>3, <1>4, <1>5, <1>6, <1>7, <1>8, <1>9, <1>10, <1>11 DEF c

(* All of s but its columns.                                               *)
SameRest(s, t) ==
    /\ t.selected = s.selected /\ t.ratio = s.ratio /\ t.offset = s.offset /\ t.intent = s.intent
    /\ t.keptView = s.keptView /\ t.keptPlace = s.keptPlace /\ t.centre = s.centre
    /\ t.measured = s.measured /\ t.fullWidth = s.fullWidth
    /\ t.widthOrigins = s.widthOrigins /\ t.foldOrigins = s.foldOrigins

LEMMA ColumnsChanged ==
    ASSUME NEW s \in StripSet, NEW columns \in Seq(ColumnSet)
    PROVE  /\ [s EXCEPT !.columns = columns] \in StripSet
           /\ [s EXCEPT !.columns = columns].columns = columns
           /\ SameRest(s, [s EXCEPT !.columns = columns])
  BY DEF StripSet, SameRest

(* w out of its column, which is gone if it was alone in it.               *)
LEMMA TakenOut ==
    ASSUME NEW s \in StripSet, Arranged(s.columns), NEW w, OnStrip(s, w), NEW t, t = TakeOut(s, w),
           NEW c, c = ColumnOf(s, w)
    PROVE  /\ t \in StripSet /\ SameRest(s, t) /\ Arranged(t.columns)
           /\ \A v : OnStrip(t, v) <=> OnStrip(s, v) /\ v # w
           /\ ~Stacked(s, w) =>
                 /\ Among(t.columns) = Among(s.columns) \ {s.columns[c]} /\ Len(t.columns) = Len(s.columns) - 1
                 /\ \A i \in 1..(Len(s.columns) - 1) :
                       t.columns[i] = IF i < c THEN s.columns[i] ELSE s.columns[i + 1]
           /\ Stacked(s, w) =>
                 /\ Among(t.columns) = (Among(s.columns) \ {s.columns[c]}) \cup {t.columns[c]}
                 /\ Len(t.columns) = Len(s.columns)
                 /\ \A i \in DOMAIN s.columns : i # c => t.columns[i] = s.columns[i]
                 /\ t.columns[c] \in ColumnSet /\ t.columns[c].width = s.columns[c].width
                 /\ Len(t.columns[c].windows) = Len(s.columns[c].windows) - 1
                 /\ \A v : In(t.columns[c], v) <=> In(s.columns[c], v) /\ v # w
<1> DEFINE k == s.columns[c]
           n == Len(k.windows)
           r == RowOf(s, w)
           rest == RemoveAt(k.windows, r)
<1>1. /\ c \in DOMAIN s.columns /\ k \in ColumnSet /\ k \in Among(s.columns) /\ k.windows = Stack(s, w)
      /\ k.windows \in Seq(Windows) /\ Single(k.windows) /\ n \in Nat \ {0}
      /\ r \in 1..n /\ k.windows[r] = w /\ In(k, w)
      /\ (\A d \in DOMAIN s.columns : In(s.columns[d], w) => d = c)
      /\ \A i \in DOMAIN k.windows : k.windows[i] = w => i = r
  BY WhereIs
<1>2. s.columns \in Seq(ColumnSet) /\ Len(s.columns) \in Nat /\ DOMAIN s.columns = 1..Len(s.columns)
  BY DEF Arranged
<1>3. /\ rest \in Seq(Windows) /\ Len(rest) = n - 1
      /\ \A i \in 1..(n - 1) : rest[i] = IF i < r THEN k.windows[i] ELSE k.windows[i + 1]
  BY <1>1, RemovedAt
<1>4. DOMAIN rest = 1..(n - 1) /\ DOMAIN k.windows = 1..n
  BY <1>1, <1>3
<1>5. rest = <<>> <=> ~Stacked(s, w)
  <2>1. rest = <<>> <=> Len(rest) = 0
    <3> HIDE DEF rest
    <3>1. rest \in Seq(Windows)
      BY <1>3
    <3> QED BY <3>1
  <2>2. Stacked(s, w) <=> n > 1
    BY <1>1 DEF Stacked
  <2> HIDE DEF rest, n
  <2> QED BY <1>1, <1>3, <2>1, <2>2
<1>6. t = [s EXCEPT !.columns = IF rest = <<>> THEN RemoveAt(@, c) ELSE [@ EXCEPT ![c].windows = rest]]
  BY <1>1 DEF TakeOut
<1>7. ASSUME NEW v PROVE (\E i \in DOMAIN rest : rest[i] = v) <=> In(k, v) /\ v # w
  <2>1. ASSUME NEW i \in DOMAIN rest, rest[i] = v PROVE In(k, v) /\ v # w
    <3>1. CASE i < r
      BY <1>1, <1>3, <1>4, <2>1, <3>1 DEF In
    <3>2. CASE i >= r
      <4>1. i + 1 \in DOMAIN k.windows /\ k.windows[i + 1] = v /\ i + 1 # r
        BY <1>1, <1>3, <1>4, <2>1, <3>2
      <4> QED BY <1>1, <4>1 DEF In
    <3> QED BY <1>1, <1>4, <3>1, <3>2
  <2>2. ASSUME NEW i \in DOMAIN k.windows, k.windows[i] = v, v # w PROVE \E j \in DOMAIN rest : rest[j] = v
    <3>1. i # r
      BY <1>1, <2>2
    <3>2. CASE i < r
      BY <1>1, <1>3, <1>4, <2>2, <3>2
    <3>3. CASE i > r
      <4>1. i - 1 \in DOMAIN rest /\ ~(i - 1 < r) /\ (i - 1) + 1 = i
        BY <1>1, <1>4, <3>3
      <4>2. rest[i - 1] = k.windows[i]
        BY <1>3, <1>4, <4>1
      <4> QED BY <2>2, <4>1, <4>2
    <3> QED BY <1>1, <1>4, <3>1, <3>2, <3>3
  <2> QED BY <2>1, <2>2 DEF In
<1>8. Single(rest)
  <2> SUFFICES ASSUME NEW i \in DOMAIN rest, NEW j \in DOMAIN rest, rest[i] = rest[j] PROVE i = j
    BY DEF Single
  <2> DEFINE From(m) == IF m < r THEN m ELSE m + 1
  <2>1. From(i) \in DOMAIN k.windows /\ From(j) \in DOMAIN k.windows
    BY <1>1, <1>4
  <2>2. rest[i] = k.windows[From(i)] /\ rest[j] = k.windows[From(j)]
    BY <1>3, <1>4
  <2>3. From(i) = From(j)
    <3> HIDE DEF From
    <3> QED BY <1>1, <2>1, <2>2 DEF Single
  <2> QED BY <1>1, <1>4, <2>3
<1>9. CASE ~Stacked(s, w)
  <2>1. t = [s EXCEPT !.columns = RemoveAt(s.columns, c)]
    BY <1>5, <1>6, <1>9
  <2> DEFINE new == RemoveAt(s.columns, c)
  <2>2. /\ Arranged(new) /\ Among(new) = Among(s.columns) \ {k} /\ Len(new) = Len(s.columns) - 1
        /\ \A i \in 1..(Len(s.columns) - 1) : new[i] = IF i < c THEN s.columns[i] ELSE s.columns[i + 1]
    BY <1>1, ColumnRemoved
  <2>3. new \in Seq(ColumnSet)
    BY <2>2 DEF Arranged
  <2> HIDE DEF new
  <2>4. t \in StripSet /\ SameRest(s, t) /\ t.columns = new
    BY <2>1, <2>3, ColumnsChanged DEF new
  <2>5. ASSUME NEW v PROVE OnStrip(t, v) <=> OnStrip(s, v) /\ v # w
    <3>1. OnStrip(t, v) <=> \E l \in Among(s.columns) \ {k} : In(l, v)
      BY <2>2, <2>4, OnStripIs
    <3>2. OnStrip(s, v) <=> \E l \in Among(s.columns) : In(l, v)
      BY OnStripIs
    <3>3. In(k, v) => v = w
      <4>1. rest = <<>> => DOMAIN rest = {}
        OBVIOUS
      <4> HIDE DEF rest, k
      <4> QED BY <1>5, <1>7, <1>9, <4>1
    <3>4. \A l \in Among(s.columns) \ {k} : ~In(l, w)
      <4> HIDE DEF k
      <4> QED BY <1>1 DEF Among, k
    <3> HIDE DEF k
    <3> QED BY <1>1, <3>1, <3>2, <3>3, <3>4
  <2> QED BY <1>9, <2>2, <2>4, <2>5
<1>10. CASE Stacked(s, w)
  <2> DEFINE l == [k EXCEPT !.windows = rest]
             new == [s.columns EXCEPT ![c] = l]
  <2>1. t = [s EXCEPT !.columns = new]
    BY <1>5, <1>6, <1>10
  <2>2. l \in ColumnSet /\ l.windows = rest /\ l.width = k.width
    <3> HIDE DEF rest, k
    <3> QED BY <1>1, <1>3, <1>5, <1>10 DEF ColumnSet
  <2>3. \A v : In(l, v) <=> In(k, v) /\ v # w
    <3> HIDE DEF rest, k, l
    <3> QED BY <1>7, <2>2 DEF In
  <2>4. \A d \in DOMAIN s.columns, v \in Windows : In(s.columns[d], v) /\ In(l, v) => d = c
    BY <1>1, <2>3, OneColumn
  <2> HIDE DEF l
  <2>5. /\ Arranged(new) /\ Among(new) = (Among(s.columns) \ {k}) \cup {l}
        /\ Len(new) = Len(s.columns) /\ DOMAIN new = DOMAIN s.columns
        /\ \A i \in DOMAIN s.columns : new[i] = IF i = c THEN l ELSE s.columns[i]
    BY <1>1, <1>8, <2>2, <2>4, ColumnReplaced
  <2>6. new \in Seq(ColumnSet)
    BY <2>5 DEF Arranged
  <2> HIDE DEF new
  <2>7. t \in StripSet /\ SameRest(s, t) /\ t.columns = new
    BY <2>1, <2>6, ColumnsChanged
  <2>8. ASSUME NEW v PROVE OnStrip(t, v) <=> OnStrip(s, v) /\ v # w
    <3>1. OnStrip(t, v) <=> \E m \in (Among(s.columns) \ {k}) \cup {l} : In(m, v)
      BY <2>5, <2>7, OnStripIs
    <3>2. OnStrip(s, v) <=> \E m \in Among(s.columns) : In(m, v)
      BY OnStripIs
    <3>4. \A m \in Among(s.columns) \ {k} : ~In(m, w)
      <4> HIDE DEF k
      <4> QED BY <1>1 DEF Among, k
    <3> HIDE DEF k
    <3> QED BY <1>1, <2>3, <3>1, <3>2, <3>4
  <2>9. t.columns[c] = l /\ Len(l.windows) = n - 1
    BY <1>1, <1>3, <2>2, <2>5, <2>7
  <2>10. Among(t.columns) = (Among(s.columns) \ {s.columns[c]}) \cup {t.columns[c]}
    BY <2>5, <2>7, <2>9
  <2>11. Len(t.columns[c].windows) = Len(s.columns[c].windows) - 1 /\ t.columns[c].width = s.columns[c].width
    BY <2>2, <2>9
  <2>12. \A v : In(t.columns[c], v) <=> In(s.columns[c], v) /\ v # w
    BY <2>3, <2>9
  <2>13. \A i \in DOMAIN s.columns : i # c => t.columns[i] = s.columns[i]
    BY <2>5, <2>7
  <2>14. t.columns[c] \in ColumnSet
    BY <2>2, <2>9
  <2> HIDE DEF k, n
  <2> QED BY <1>10, <2>5, <2>7, <2>8, <2>10, <2>11, <2>12, <2>13, <2>14
<1> QED BY <1>9, <1>10

-----------------------------------------------------------------------------
(* Scroll requests leave the windows alone.                                *)

Kin(s, t) ==
    /\ t.columns = s.columns /\ t.selected = s.selected /\ t.ratio = s.ratio /\ t.fullWidth = s.fullWidth
    /\ t.widthOrigins = s.widthOrigins /\ t.foldOrigins = s.foldOrigins

LEMMA Typed ==
    /\ NoShare \in Shares /\ Centred \in Places /\ NoView \in [window : OptWindow, side : Sides, view : Places]
    /\ NoPlace \in [window : OptWindow, place : Places] /\ Keep \in Intents
    /\ NoView.window = NoWindow /\ NoPlace.window = NoWindow /\ NoWindow \in OptWindow
    /\ Keep.kind = "keep" /\ Keep.reveal = "none" /\ Keep.window = NoWindow /\ Keep.pin = "none"
    /\ NoShare[1] = 0 /\ NoShare[2] = 0
  BY DEF Shares, NoShare, Centred, Places, NoView, NoPlace, Keep, Intents, OptWindow, Kinds, Ways, Pinned, Sides

Wish(k, way) == [kind |-> k, reveal |-> way, window |-> NoWindow, pin |-> "none", value |-> NoShare]

LEMMA WishIs ==
    ASSUME NEW k \in Kinds, NEW way \in Ways, NEW i, i = Wish(k, way)
    PROVE  i \in Intents /\ i.kind = k /\ i.reveal = way /\ i.pin = "none"
<1>1. NoWindow \in OptWindow /\ NoShare \in Shares /\ "none" \in Pinned
  BY Typed DEF Pinned
<1> QED BY <1>1 DEF Intents, Wish

LEMMA WishTo ==
    ASSUME NEW way PROVE [Keep EXCEPT !.kind = "reveal", !.reveal = way] = Wish("reveal", way)
<1>1. PICK j : j = [Keep EXCEPT !.kind = "reveal"]
  OBVIOUS
<1>2. j = Wish("reveal", "none")
  BY <1>1 DEF Keep, Wish
<1>3. [j EXCEPT !.reveal = way] = Wish("reveal", way)
  <2> QED BY <1>2 DEF Wish
<1> QED BY <1>1, <1>3

LEMMA WishTypes ==
    /\ "reveal" \in Kinds /\ "align" \in Kinds /\ "center" \in Kinds
    /\ "none" \in Ways /\ "either" \in Ways /\ "fromLeft" \in Ways /\ "fromRight" \in Ways
  BY DEF Kinds, Ways

LEMMA UnpinIs ==
    ASSUME NEW s \in StripSet, NEW t, t = Unpin(s)
    PROVE  /\ t \in StripSet /\ Kin(s, t) /\ t.centre = s.centre /\ t.offset = s.offset
           /\ t.keptView = NoView /\ t.keptPlace = NoPlace
           /\ t.measured = [s.measured EXCEPT !.share = NoShare]
           /\ t.intent.kind # "pin" /\ (t.intent.kind = "reveal" => t.intent.reveal = s.intent.reveal)
<1> DEFINE intent == IF s.intent.kind # "pin" THEN s.intent
                     ELSE IF s.intent.reveal = "none" THEN Keep
                     ELSE [Keep EXCEPT !.kind = "reveal", !.reveal = s.intent.reveal]
           measured == [s.measured EXCEPT !.share = NoShare]
<1>1. s.intent \in Intents /\ s.measured \in Measures /\ s.intent.reveal \in Ways
  BY DEF StripSet, Intents
<1>2. intent \in Intents /\ intent.kind # "pin" /\ (intent.kind = "reveal" => intent.reveal = s.intent.reveal)
  <2>1. CASE s.intent.kind # "pin"
    BY <1>1, <2>1
  <2>2. CASE s.intent.kind = "pin" /\ s.intent.reveal = "none"
    BY <2>2, Typed
  <2>3. CASE s.intent.kind = "pin" /\ s.intent.reveal # "none"
    <3>1. PICK i : i = Wish("reveal", s.intent.reveal)
      OBVIOUS
    <3>2. i \in Intents /\ i.kind = "reveal" /\ i.reveal = s.intent.reveal
      BY <1>1, <3>1, WishIs, WishTypes
    <3>3. [Keep EXCEPT !.kind = "reveal", !.reveal = s.intent.reveal] = i
      BY <3>1, WishTo
    <3> QED BY <2>3, <3>2, <3>3
  <2> QED BY <2>1, <2>2, <2>3
<1>3. measured \in Measures
  BY <1>1, Typed DEF Measures
<1>4. t = [s EXCEPT !.intent = intent, !.keptView = NoView, !.keptPlace = NoPlace, !.measured = measured]
  <2>1. t = [s EXCEPT !.intent = intent, !.keptView = NoView, !.keptPlace = NoPlace, !.measured.share = NoShare]
    BY DEF Unpin
  <2>2. [s EXCEPT !.intent = intent, !.keptView = NoView, !.keptPlace = NoPlace, !.measured.share = NoShare]
        = [s EXCEPT !.intent = intent, !.keptView = NoView, !.keptPlace = NoPlace, !.measured = measured]
    <3> HIDE DEF intent
    <3> QED BY DEF StripSet
  <2> QED BY <2>1, <2>2
<1> HIDE DEF intent, measured
<1>5. t \in StripSet
  BY <1>2, <1>3, <1>4, Typed DEF StripSet
<1>6. /\ Kin(s, t) /\ t.centre = s.centre /\ t.offset = s.offset /\ t.keptView = NoView /\ t.keptPlace = NoPlace
      /\ t.measured = measured /\ t.intent = intent
  BY <1>4 DEF Kin, StripSet
<1> QED BY <1>2, <1>5, <1>6 DEF measured

(* The scroll asked of the next pass.                                      *)
Scrolls(s, t, centre, intent) ==
    /\ t \in StripSet /\ Kin(s, t) /\ t.centre = centre /\ t.intent = intent
    /\ t.keptView = NoView /\ t.keptPlace = NoPlace /\ t.measured = [s.measured EXCEPT !.share = NoShare]

LEMMA Scrolled ==
    ASSUME NEW s \in StripSet, NEW centre \in OptWindow, NEW intent \in Intents,
           NEW t, t = [Unpin(s) EXCEPT !.centre = centre, !.intent = intent]
    PROVE  Scrolls(s, t, centre, intent) /\ t.offset = s.offset
<1>1. PICK u : u = Unpin(s)
  OBVIOUS
<1>2. /\ u \in StripSet /\ Kin(s, u) /\ u.offset = s.offset
      /\ u.keptView = NoView /\ u.keptPlace = NoPlace /\ u.measured = [s.measured EXCEPT !.share = NoShare]
  BY <1>1, UnpinIs
<1>3. t = [u EXCEPT !.centre = centre, !.intent = intent]
  BY <1>1
<1>4. t \in StripSet /\ t.centre = centre /\ t.intent = intent
  BY <1>2, <1>3 DEF StripSet
<1>5. Kin(u, t) /\ t.keptView = u.keptView /\ t.keptPlace = u.keptPlace /\ t.measured = u.measured /\ t.offset = u.offset
  BY <1>2, <1>3 DEF StripSet, Kin
<1> QED BY <1>2, <1>4, <1>5 DEF Scrolls, Kin

LEMMA Reveals ==
    ASSUME NEW s \in StripSet, NEW way \in {"either", "fromLeft", "fromRight"}, NEW t, t = Reveal(s, way)
    PROVE  /\ Scrolls(s, t, NoWindow, Wish("reveal", way))
           /\ t.intent.kind = "reveal" /\ t.intent.reveal = way /\ t.intent.pin = "none"
<1>1. PICK i : i = Wish("reveal", way)
  OBVIOUS
<1>2. i \in Intents /\ i.kind = "reveal" /\ i.reveal = way /\ i.pin = "none"
  BY <1>1, WishIs, WishTypes
<1>3. t = [Unpin(s) EXCEPT !.centre = NoWindow, !.intent = i]
  <2>1. [Keep EXCEPT !.kind = "reveal", !.reveal = way] = i
    BY <1>1, WishTo
  <2> QED BY <2>1 DEF Reveal
<1>4. Scrolls(s, t, NoWindow, i)
  BY <1>2, <1>3, Scrolled, Typed
<1> QED BY <1>1, <1>2, <1>4 DEF Scrolls

(* What a strip's own view was is dropped by any of them.                  *)
Freed(s, t) ==
    /\ t \in StripSet /\ Kin(s, t) /\ t.centre \in {NoWindow, s.selected}
    /\ t.keptView = NoView /\ t.keptPlace = NoPlace /\ t.measured.share = NoShare
    /\ t.measured.selected = s.measured.selected

LEMMA ScrollFrees ==
    ASSUME NEW s \in StripSet, NEW t, NEW centre, NEW intent, Scrolls(s, t, centre, intent),
           centre \in {NoWindow, s.selected}
    PROVE  Freed(s, t)
<1>1. s.measured \in Measures
  BY DEF StripSet
<1>2. /\ [s.measured EXCEPT !.share = NoShare].share = NoShare
      /\ [s.measured EXCEPT !.share = NoShare].selected = s.measured.selected
  BY <1>1 DEF Measures
<1> QED BY <1>2 DEF Scrolls, Freed

LEMMA Aligns ==
    ASSUME NEW s \in StripSet, NEW t, t = Align(s)
    PROVE  /\ Freed(s, t)
           /\ t.centre # NoWindow => t.intent.kind = "center" /\ t.intent.reveal = "none" /\ t.intent.pin = "none"
           /\ t.centre = NoWindow /\ Located(s) =>
                 t.intent.kind = "align" /\ t.intent.reveal = "none" /\ t.intent.pin = "none"
<1>1. PICK u : u = Unpin(s)
  OBVIOUS
<1>2. /\ u \in StripSet /\ Kin(s, u) /\ u.keptView = NoView /\ u.keptPlace = NoPlace /\ u.centre = s.centre
      /\ u.measured = [s.measured EXCEPT !.share = NoShare]
  BY <1>1, UnpinIs
<1>3. Located(u) = Located(s)
  BY <1>2 DEF Located, OnStrip, Kin
<1>4. s.measured \in Measures
  BY DEF StripSet
<1>5. u.measured.share = NoShare /\ u.measured.selected = s.measured.selected
  BY <1>2, <1>4 DEF Measures
<1>6. CASE u.centre # NoWindow /\ u.centre = u.selected
  <2>1. PICK i : i = Wish("center", "none")
    OBVIOUS
  <2>2. i \in Intents /\ i.kind = "center" /\ i.reveal = "none" /\ i.pin = "none"
    BY <2>1, WishIs, WishTypes
  <2>6. [Keep EXCEPT !.kind = "center"] = i
    BY <2>1 DEF Wish, Keep
  <2>3. t = [u EXCEPT !.intent = i]
    BY <1>1, <1>6, <2>6 DEF Align
  <2>4. t \in StripSet /\ t.intent = i /\ t.centre = u.centre
    BY <1>2, <2>2, <2>3 DEF StripSet
  <2>5. Kin(u, t) /\ t.keptView = u.keptView /\ t.keptPlace = u.keptPlace /\ t.measured = u.measured
    BY <1>2, <2>3 DEF StripSet, Kin
  <2> QED BY <1>2, <1>5, <1>6, <2>2, <2>4, <2>5 DEF Freed, Kin
<1>7. CASE ~(u.centre # NoWindow /\ u.centre = u.selected) /\ Located(u)
  <2>1. PICK i : i = Wish("align", "none")
    OBVIOUS
  <2>2. i \in Intents /\ i.kind = "align" /\ i.reveal = "none" /\ i.pin = "none"
    BY <2>1, WishIs, WishTypes
  <2>6. [Keep EXCEPT !.kind = "align"] = i
    BY <2>1 DEF Wish, Keep
  <2>3. t = [u EXCEPT !.centre = NoWindow, !.intent = i]
    BY <1>1, <1>7, <2>6 DEF Align
  <2>4. t \in StripSet /\ t.intent = i /\ t.centre = NoWindow
    BY <1>2, <2>2, <2>3, Typed DEF StripSet
  <2>5. Kin(u, t) /\ t.keptView = u.keptView /\ t.keptPlace = u.keptPlace /\ t.measured = u.measured
    BY <1>2, <2>3 DEF StripSet, Kin
  <2> QED BY <1>2, <1>5, <2>2, <2>4, <2>5 DEF Freed, Kin
<1>8. CASE ~(u.centre # NoWindow /\ u.centre = u.selected) /\ ~Located(u)
  <2>1. PICK i : i = IF u.intent.kind = "align" THEN u.intent ELSE Keep
    OBVIOUS
  <2>2. i \in Intents
    BY <1>2, <2>1, Typed DEF StripSet
  <2>3. t = [u EXCEPT !.centre = NoWindow, !.offset = 0, !.intent = i]
    BY <1>1, <1>8, <2>1 DEF Align
  <2>4. t \in StripSet /\ t.centre = NoWindow
    <3>1. 0 \in Int /\ NoWindow \in OptWindow
      BY Typed
    <3> QED BY <1>2, <2>2, <2>3, <3>1 DEF StripSet
  <2>5. Kin(u, t) /\ t.keptView = u.keptView /\ t.keptPlace = u.keptPlace /\ t.measured = u.measured
    BY <1>2, <2>3 DEF StripSet, Kin
  <2> QED BY <1>2, <1>3, <1>5, <1>8, <2>4, <2>5 DEF Freed, Kin
<1> QED BY <1>6, <1>7, <1>8

-----------------------------------------------------------------------------
(* What the next pass brings the selected column into view by.             *)

Sighted(s) ==
    \/ s.centre # NoWindow /\ s.intent.kind = "center" /\ s.intent.reveal = "none" /\ s.intent.pin = "none"
    \/ s.centre = NoWindow /\ s.intent.kind = "align" /\ s.intent.reveal = "none" /\ s.intent.pin = "none"
    \/ /\ s.centre = NoWindow /\ s.intent.kind = "reveal" /\ s.intent.pin = "none"
       /\ s.intent.reveal \in {"either", "fromLeft", "fromRight"}
    \/ /\ s.centre = NoWindow /\ s.intent.kind = "pin" /\ s.intent.window = s.selected /\ s.intent.reveal = "none"
       /\ \/ s.intent.pin = "place" /\ Part(s.intent.value)
          \/ /\ s.intent.pin = "start" /\ 0 <= s.intent.value[1]
             /\ s.intent.value[1] <= Viewport - Width(s, s.columns[SelectedColumn(s)])

(* The windows as they were, the scroll held for the selection alone and   *)
(* by sound lengths, and the selection brought into view.                  *)
Shown(s, t, nv) ==
    /\ t \in StripSet /\ Kin(s, t) /\ HeldFor(t) /\ Lengths(t)
    /\ t.keptView = NoView
    /\ nv /\ Located(s) => Sighted(t)

LEMMA FreedHolds ==
    ASSUME NEW s, NEW t, Freed(s, t)
    PROVE  t \in StripSet /\ Kin(s, t) /\ HeldFor(t) /\ Lengths(t) /\ t.keptView = NoView
<1>1. NoView.window = NoWindow /\ NoPlace.window = NoWindow
  BY Typed
<1> QED BY <1>1 DEF Freed, Kin, HeldFor, Lengths

LEMMA KinLocated ==
    ASSUME NEW s, NEW t, Kin(s, t)
    PROVE  /\ Located(t) <=> Located(s)
           /\ \A w : OnStrip(t, w) <=> OnStrip(s, w)
           /\ \A w : ColumnOf(t, w) = ColumnOf(s, w) /\ Stack(t, w) = Stack(s, w) /\ (Stacked(t, w) <=> Stacked(s, w))
  BY DEF Kin, Located, OnStrip, ColumnOf, Stack, Stacked

LEMMA RevealShows ==
    ASSUME NEW s \in StripSet, NEW way \in {"either", "fromLeft", "fromRight"}, NEW t, t = Reveal(s, way), NEW nv \in BOOLEAN
    PROVE  Shown(s, t, nv) /\ Freed(s, t) /\ Sighted(t)
<1>1. /\ Scrolls(s, t, NoWindow, Wish("reveal", way))
      /\ t.intent.kind = "reveal" /\ t.intent.reveal = way /\ t.intent.pin = "none"
  BY Reveals
<1>2. Freed(s, t)
  BY <1>1, ScrollFrees
<1>3. Sighted(t)
  BY <1>1 DEF Sighted, Scrolls
<1> QED BY <1>2, <1>3, FreedHolds DEF Shown

LEMMA AlignShows ==
    ASSUME NEW s \in StripSet, NEW t, t = Align(s), NEW nv \in BOOLEAN
    PROVE  Shown(s, t, nv) /\ Freed(s, t) /\ (Located(s) => Sighted(t))
<1>1. Freed(s, t) /\ (Located(s) => Sighted(t))
  BY Aligns DEF Sighted
<1> QED BY <1>1, FreedHolds DEF Shown

LEMMA ShowShows ==
    ASSUME NEW s \in StripSet, NEW nv \in BOOLEAN, NEW t, t = Show(s, nv)
    PROVE  Shown(s, t, nv) /\ Freed(s, t)
<1>1. CASE nv
  <2>1. t = Reveal(s, "either") /\ "either" \in {"either", "fromLeft", "fromRight"}
    BY <1>1 DEF Show
  <2> QED BY <2>1, RevealShows
<1>2. CASE ~nv
  <2>1. t = Align(s)
    BY <1>2 DEF Show
  <2> QED BY <2>1, AlignShows
<1> QED BY <1>1, <1>2

LEMMA CenterShows ==
    ASSUME NEW s \in StripSet, NEW nv \in BOOLEAN, NEW t, t = Center(s), s.centre \in {NoWindow, s.selected}
    PROVE  Shown(s, t, nv)
<1>1. PICK u : u = Unpin(s)
  OBVIOUS
<1>2. /\ u \in StripSet /\ Kin(s, u) /\ u.keptView = NoView /\ u.keptPlace = NoPlace /\ u.centre = s.centre
      /\ u.measured = [s.measured EXCEPT !.share = NoShare]
  BY <1>1, UnpinIs
<1>3. Located(u) <=> Located(s)
  BY <1>2, KinLocated
<1>4. s.measured \in Measures
  BY DEF StripSet
<1>5. u.measured.share = NoShare /\ u.measured.selected = s.measured.selected
  BY <1>2, <1>4 DEF Measures
<1>6. CASE ~Located(u)
  <2>1. t = u
    BY <1>1, <1>6 DEF Center
  <2>2. Freed(s, t)
    BY <1>2, <1>5, <2>1 DEF Freed
  <2> QED BY <1>3, <1>6, <2>2, FreedHolds DEF Shown
<1>7. CASE Located(u) /\ u.centre = u.selected
  <2>1. PICK i : i = Wish("align", "none")
    OBVIOUS
  <2>2. i \in Intents /\ i.kind = "align" /\ i.reveal = "none" /\ i.pin = "none"
    BY <2>1, WishIs, WishTypes
  <2>3. [Keep EXCEPT !.kind = "align"] = i
    BY <2>1 DEF Wish, Keep
  <2>4. t = [u EXCEPT !.centre = NoWindow, !.intent = i]
    BY <1>1, <1>7, <2>3 DEF Center
  <2>5. t \in StripSet /\ t.intent = i /\ t.centre = NoWindow
    BY <1>2, <2>2, <2>4, Typed DEF StripSet
  <2>6. Kin(u, t) /\ t.keptView = u.keptView /\ t.keptPlace = u.keptPlace /\ t.measured = u.measured
    BY <1>2, <2>4 DEF StripSet, Kin
  <2>7. Freed(s, t) /\ Sighted(t)
    BY <1>2, <1>5, <2>2, <2>5, <2>6 DEF Freed, Kin, Sighted
  <2> QED BY <2>7, FreedHolds DEF Shown
<1>8. CASE Located(u) /\ u.centre # u.selected
  <2>1. PICK i : i = Wish("center", "none")
    OBVIOUS
  <2>2. i \in Intents /\ i.kind = "center" /\ i.reveal = "none" /\ i.pin = "none"
    BY <2>1, WishIs, WishTypes
  <2>3. [Keep EXCEPT !.kind = "center"] = i
    BY <2>1 DEF Wish, Keep
  <2>4. t = [u EXCEPT !.centre = u.selected, !.intent = i]
    BY <1>1, <1>8, <2>3 DEF Center
  <2>5. t \in StripSet /\ t.intent = i /\ t.centre = u.selected
    BY <1>2, <2>2, <2>4 DEF StripSet
  <2>6. Kin(u, t) /\ t.keptView = u.keptView /\ t.keptPlace = u.keptPlace /\ t.measured = u.measured
    BY <1>2, <2>4 DEF StripSet, Kin
  <2>7. Freed(s, t) /\ Sighted(t)
    BY <1>2, <1>5, <1>8, <2>2, <2>5, <2>6 DEF Freed, Kin, Sighted, Located
  <2> QED BY <2>7, FreedHolds DEF Shown
<1> QED BY <1>6, <1>7, <1>8

(* The selected w's column held at a place, or from a view.                *)
LEMMA HeldSelected ==
    ASSUME NEW s \in StripSet, NEW w \in Windows, s.selected = w, NEW pin \in {"place", "start"}, NEW at \in Places,
           pin = "place" /\ ~at.centred => Part(at.value), NEW t, t = HoldSelected(s, w, pin, at)
    PROVE  /\ Freed(s, t)
           /\ at.centred => Sighted(t)
           /\ ~at.centred => /\ t.centre = NoWindow /\ t.intent.kind = "pin" /\ t.intent.window = w
                             /\ t.intent.pin = pin /\ t.intent.value = at.value /\ t.intent.reveal = "none"
<1>1. w \in OptWindow /\ w # NoWindow
  BY StripAssumption DEF OptWindow
<1>2. CASE at.centred
  <2>1. PICK i : i = Wish("center", "none")
    OBVIOUS
  <2>2. i \in Intents /\ i.kind = "center" /\ i.reveal = "none" /\ i.pin = "none"
    BY <2>1, WishIs, WishTypes
  <2>3. [Keep EXCEPT !.kind = "center"] = i
    BY <2>1 DEF Wish, Keep
  <2>4. t = [Unpin(s) EXCEPT !.centre = w, !.intent = i]
    BY <1>2, <2>3 DEF HoldSelected
  <2>5. Scrolls(s, t, w, i)
    BY <1>1, <2>2, <2>4, Scrolled
  <2>6. Freed(s, t)
    BY <2>5, ScrollFrees
  <2> QED BY <1>1, <1>2, <2>2, <2>5, <2>6 DEF Scrolls, Sighted
<1>3. CASE ~at.centred
  <2>1. PICK i : i = [kind |-> "pin", reveal |-> "none", window |-> w, pin |-> pin, value |-> at.value]
    OBVIOUS
  <2>2. i \in Intents
    <3>1. at.value \in Shares /\ "pin" \in Kinds /\ "none" \in Ways /\ pin \in Pinned /\ (pin = "place" => at.value[2] > 0)
      BY <1>3 DEF Places, Kinds, Ways, Pinned, Part
    <3> QED BY <1>1, <2>1, <3>1 DEF Intents
  <2>3. i.kind = "pin" /\ i.reveal = "none" /\ i.window = w /\ i.pin = pin /\ i.value = at.value
    BY <2>1
  <2>4. t = [Unpin(s) EXCEPT !.centre = NoWindow, !.intent = i]
    BY <1>3, <2>1 DEF HoldSelected, Pin
  <2>5. Scrolls(s, t, NoWindow, i)
    BY <2>2, <2>4, Scrolled, Typed
  <2>6. Freed(s, t)
    BY <2>5, ScrollFrees
  <2> QED BY <1>3, <2>3, <2>5, <2>6 DEF Scrolls
<1>4. at.centred \in BOOLEAN
  BY DEF Places
<1> QED BY <1>2, <1>3, <1>4

LEMMA PlaceKeptShows ==
    ASSUME NEW s \in StripSet, NEW w \in Windows, s.selected = w, NEW place \in Places, NEW nv \in BOOLEAN,
           place.centred \/ Part(place.value), NEW t, t = KeepPlace(s, w, place)
    PROVE  Shown(s, t, nv) /\ Sighted(t)
<1>1. PICK u : u = HoldSelected(s, w, "place", place)
  OBVIOUS
<1>2. /\ Freed(s, u) /\ (place.centred => Sighted(u))
      /\ ~place.centred => /\ u.centre = NoWindow /\ u.intent.kind = "pin" /\ u.intent.window = w
                           /\ u.intent.pin = "place" /\ u.intent.value = place.value /\ u.intent.reveal = "none"
  <2>1. "place" \in {"place", "start"} /\ (~place.centred => Part(place.value))
    BY DEF Places
  <2> QED BY <1>1, <2>1, HeldSelected
<1>3. u \in StripSet
  BY <1>2 DEF Freed
<1>4. PICK k : k = [window |-> w, place |-> place]
  OBVIOUS
<1>5. k \in [window : OptWindow, place : Places] /\ k.window = w /\ k.place = place
  BY <1>4 DEF OptWindow
<1>6. t = [u EXCEPT !.keptPlace = k]
  BY <1>1, <1>4 DEF KeepPlace
<1>7. t \in StripSet /\ t.keptPlace = k
  BY <1>3, <1>5, <1>6 DEF StripSet
<1>8. Kin(u, t) /\ t.keptView = u.keptView /\ t.measured = u.measured /\ t.centre = u.centre /\ t.intent = u.intent
  BY <1>3, <1>6 DEF StripSet, Kin
<1>9. Sighted(u)
  <2>1. u.selected = w
    BY <1>2 DEF Freed, Kin
  <2> QED BY <1>2, <2>1 DEF Sighted
<1>10. Sighted(t)
  <2>1. SelectedColumn(t) = SelectedColumn(u)
    BY <1>8, KinLocated DEF SelectedColumn, Kin
  <2>2. \A l : Width(t, l) = Width(u, l)
    BY <1>8 DEF Width, Kind, Kin
  <2> QED BY <1>8, <1>9, <2>1, <2>2 DEF Sighted, Kin
<1>11. HeldFor(t) /\ Lengths(t) /\ t.keptView = NoView /\ Kin(s, t)
  BY <1>2, <1>5, <1>7, <1>8, Typed DEF Freed, Kin, HeldFor, Lengths
<1> QED BY <1>7, <1>10, <1>11 DEF Shown

(* Places a width change may keep a column at.                             *)
PlacesOK(places) == \A p \in places : p \in Places /\ (p.centred \/ Part(p.value))

LEMMA RescrollShows ==
    ASSUME NEW s \in StripSet, NEW w \in Windows, s.selected = w, NEW places, PlacesOK(places),
           NEW nv \in BOOLEAN, NEW t, t = RescrollAfterWidth(s, w, places, nv)
    PROVE  Shown(s, t, nv)
<1>1. CASE places = {}
  BY <1>1, ShowShows DEF RescrollAfterWidth
<1>2. CASE places # {}
  <2>1. PICK p : p = CHOOSE q \in places : TRUE
    OBVIOUS
  <2>2. p \in places
    BY <1>2, <2>1
  <2>3. t = KeepPlace(s, w, p)
    BY <1>2, <2>1 DEF RescrollAfterWidth
  <2> QED BY <2>2, <2>3, PlaceKeptShows DEF PlacesOK
<1> QED BY <1>1, <1>2

LEMMA PlacesKept ==
    ASSUME NEW s \in StripSet, Lengths(s), NEW w \in Windows
    PROVE  PlacesOK(KeptPlaceOf(s, w)) /\ PlacesOK(PlaceOf(s, w)) /\ PlacesOK({})
<1>1. w # NoWindow
  BY StripAssumption
<1>2. PlacesOK(KeptPlaceOf(s, w))
  <2>1. s.keptPlace.place \in Places
    BY DEF StripSet
  <2> QED BY <1>1, <2>1 DEF KeptPlaceOf, Lengths, PlacesOK
<1>3. PlacesOK({Centred})
  <2>1. Centred.centred
    BY DEF Centred
  <2> QED BY <2>1, Typed DEF PlacesOK
<1>4. PlacesOK({Held(share) : share \in {s.measured.share} \ {NoShare}})
  <2>1. s.measured.share \in Shares
    BY DEF StripSet, Measures
  <2>2. ASSUME NEW v \in Shares, Part(v) PROVE Held(v) \in Places /\ Part(Held(v).value)
    BY <2>2 DEF Held, Places
  <2> QED BY <2>1, <2>2 DEF PlacesOK, Lengths
<1>5. PlacesOK({})
  BY DEF PlacesOK
<1> QED BY <1>2, <1>3, <1>4, <1>5 DEF PlaceOf

-----------------------------------------------------------------------------
(* A strip by the windows it holds, and by those alone in their column.    *)

Soles(s) == {w \in Tiled(s) : ~Stacked(s, w)}

Fits(s, origins) ==
    \A w \in Windows : origins[w] # NoOrigin =>
        w \in Tiled(s) /\ origins[w].anchor \in Tiled(s) /\ origins[w].anchor # w

(* A good strip, but for what its scroll is held for.                      *)
Whole(s) ==
    /\ s \in StripSet /\ Arranged(s.columns)
    /\ s.selected \in Tiled(s) \/ (Tiled(s) = {} /\ s.selected = NoWindow)
    /\ s.fullWidth \subseteq Soles(s) /\ FullOnly(s)
    /\ Fits(s, s.widthOrigins) /\ Fits(s, s.foldOrigins)

LEMMA OneOrMore == ASSUME NEW n \in Nat \ {0} PROVE (n > 1 <=> n # 1) /\ (n <= 1 <=> n = 1)
  OBVIOUS

LEMMA TiledIs ==
    ASSUME NEW s, Arranged(s.columns), NEW w
    PROVE  /\ w \in Tiled(s) <=> \E k \in Among(s.columns) : In(k, w)
           /\ w \in Soles(s) <=> \E k \in Among(s.columns) : In(k, w) /\ Len(k.windows) = 1
           /\ w \in Tiled(s) <=> OnStrip(s, w)
           /\ w \in Tiled(s) => w \in Windows /\ w # NoWindow
           /\ w \in Soles(s) => w \in Tiled(s)
<1>1. w \in Tiled(s) <=> OnStrip(s, w)
  BY OnStripIs DEF Tiled
<1>2. OnStrip(s, w) <=> \E k \in Among(s.columns) : In(k, w)
  BY OnStripIs
<1>3. ASSUME OnStrip(s, w), NEW k \in Among(s.columns), In(k, w)
      PROVE  ~Stacked(s, w) <=> Len(k.windows) = 1
  <2>1. PICK d \in DOMAIN s.columns : k = s.columns[d]
    BY DEF Among
  <2>2. d = ColumnOf(s, w) /\ Stack(s, w) = s.columns[ColumnOf(s, w)].windows /\ Len(Stack(s, w)) \in Nat \ {0}
    BY <1>3, <2>1, WhereIs
  <2>3. Stack(s, w) = k.windows
    BY <2>1, <2>2
  <2>4. Len(k.windows) \in Nat \ {0} /\ (Stacked(s, w) <=> Len(k.windows) > 1)
    BY <2>2, <2>3 DEF Stacked
  <2> QED BY <2>4, OneOrMore
<1>4. w \in Soles(s) <=> \E k \in Among(s.columns) : In(k, w) /\ Len(k.windows) = 1
  <2> HIDE DEF Among
  <2> QED BY <1>1, <1>2, <1>3 DEF Soles
<1> QED BY <1>1, <1>2, <1>4, StripAssumption DEF Tiled, Soles

LEMMA Bare ==
    ASSUME NEW s, Arranged(s.columns)
    PROVE  s.columns = <<>> <=> Tiled(s) = {}
<1>1. s.columns \in Seq(ColumnSet)
  BY DEF Arranged
<1>2. CASE s.columns = <<>>
  <2>1. DOMAIN s.columns = {}
    BY <1>2
  <2>2. Among(s.columns) = {}
    BY <2>1 DEF Among
  <2> QED BY <1>2, <2>2, TiledIs
<1>3. CASE s.columns # <<>>
  <2>1. 1 \in DOMAIN s.columns
    BY <1>1, <1>3
  <2>2. /\ s.columns[1] \in Among(s.columns) /\ s.columns[1].windows \in Seq(Windows)
        /\ Len(s.columns[1].windows) \in Nat \ {0}
    BY <2>1, ColumnFacts
  <2>3. In(s.columns[1], s.columns[1].windows[1])
    BY <2>2 DEF In
  <2> QED BY <1>3, <2>2, <2>3, TiledIs
<1> QED BY <1>2, <1>3

LEMMA WholeIs ==
    ASSUME NEW s
    PROVE  Good(s) <=> Whole(s) /\ HeldFor(s)
<1>1. s \in StripSet => (Arranged(s.columns) <=> Once(s.columns))
  BY DEF StripSet, Arranged
<1> SUFFICES ASSUME s \in StripSet, Arranged(s.columns)
             PROVE  Good(s) <=> Whole(s) /\ HeldFor(s)
  BY <1>1 DEF Good, Whole
<1>2. \A w : w \in Tiled(s) <=> OnStrip(s, w)
  BY TiledIs
<1>3. Led(s) <=> s.selected \in Tiled(s) \/ (Tiled(s) = {} /\ s.selected = NoWindow)
  BY <1>2, Bare DEF Led
<1>4. s.fullWidth \subseteq Windows
  BY DEF StripSet
<1>5. Alone(s) <=> s.fullWidth \subseteq Soles(s)
  BY <1>2 DEF Alone, Soles
<1>6. Beyond(s, s.widthOrigins) <=> Fits(s, s.widthOrigins)
  BY <1>2 DEF Beyond, Fits
<1>7. Beyond(s, s.foldOrigins) <=> Fits(s, s.foldOrigins)
  BY <1>2 DEF Beyond, Fits
<1> QED BY <1>1, <1>3, <1>5, <1>6, <1>7 DEF Good, Whole

LEMMA KinWhole ==
    ASSUME NEW s, NEW t, Kin(s, t)
    PROVE  /\ Tiled(t) = Tiled(s) /\ Soles(t) = Soles(s)
           /\ Whole(s) /\ t \in StripSet => Whole(t)
<1>1. Tiled(t) = Tiled(s)
  BY KinLocated DEF Tiled
<1>2. Soles(t) = Soles(s)
  BY <1>1, KinLocated DEF Soles
<1>3. Whole(s) /\ t \in StripSet => Whole(t)
  BY <1>1, <1>2 DEF Whole, Kin, Fits, FullOnly
<1> QED BY <1>1, <1>2, <1>3

(* A strip shown after its windows were moved.                             *)
LEMMA ShownGood ==
    ASSUME NEW s, Whole(s), NEW nv \in BOOLEAN, NEW t, Shown(s, t, nv)
    PROVE  Good(t) /\ Tiled(t) = Tiled(s) /\ Soles(t) = Soles(s)
<1>1. Kin(s, t) /\ t \in StripSet /\ HeldFor(t)
  BY DEF Shown
<1>2. Whole(t) /\ Tiled(t) = Tiled(s) /\ Soles(t) = Soles(s)
  BY <1>1, KinWhole
<1> QED BY <1>1, <1>2, WholeIs

-----------------------------------------------------------------------------
(* Columns given to a strip.                                               *)

LEMMA Recolumned ==
    ASSUME NEW s \in StripSet, NEW new, Arranged(new), NEW t, t = [s EXCEPT !.columns = new]
    PROVE  /\ t \in StripSet /\ SameRest(s, t) /\ t.columns = new /\ Arranged(t.columns)
           /\ \A w : w \in Tiled(t) <=> \E k \in Among(new) : In(k, w)
           /\ \A w : w \in Soles(t) <=> \E k \in Among(new) : In(k, w) /\ Len(k.windows) = 1
<1>1. new \in Seq(ColumnSet)
  BY DEF Arranged
<1>2. t \in StripSet /\ SameRest(s, t) /\ t.columns = new
  BY <1>1, ColumnsChanged
<1>3. Arranged(t.columns)
  BY <1>2
<1> QED BY <1>2, <1>3, TiledIs

LEMMA LoneIs ==
    ASSUME NEW w \in Windows
    PROVE  /\ Lone(w) \in ColumnSet /\ Single(Lone(w).windows) /\ Len(Lone(w).windows) = 1
           /\ Lone(w).width = Unset
           /\ \A v : In(Lone(w), v) <=> v = w
<1>1. Unset \in WidthSet
  BY DEF Unset, WidthSet
<1>2. <<w>> \in Seq(Windows) \ {<<>>} /\ Len(<<w>>) = 1 /\ DOMAIN <<w>> = {1} /\ <<w>>[1] = w
  OBVIOUS
<1>3. Lone(w) \in ColumnSet /\ Lone(w).windows = <<w>> /\ Lone(w).width = Unset
  BY <1>1, <1>2 DEF Lone, ColumnSet
<1> QED BY <1>2, <1>3 DEF Single, In

Put(s, at, w) == [s EXCEPT !.columns = InsertAt(s.columns, at, Lone(w))]

(* A window that is not on the strip put there in a column of its own.     *)
LEMMA LonePut ==
    ASSUME NEW s \in StripSet, Arranged(s.columns), NEW w \in Windows, w \notin Tiled(s),
           NEW at \in 1..(Len(s.columns) + 1), NEW t, t = Put(s, at, w)
    PROVE  /\ t \in StripSet /\ SameRest(s, t) /\ Arranged(t.columns)
           /\ Tiled(t) = Tiled(s) \cup {w} /\ Soles(t) = Soles(s) \cup {w}
<1>1. PICK k : k = Lone(w)
  OBVIOUS
<1>2. k \in ColumnSet /\ Single(k.windows) /\ Len(k.windows) = 1 /\ \A v : In(k, v) <=> v = w
  BY <1>1, LoneIs
<1>3. Apart(k, s.columns)
  BY <1>2, TiledIs DEF Apart
<1>4. PICK new : new = InsertAt(s.columns, at, k)
  OBVIOUS
<1>5. Arranged(new) /\ Among(new) = Among(s.columns) \cup {k}
  BY <1>2, <1>3, <1>4, ColumnInserted
<1>6. t = [s EXCEPT !.columns = new]
  BY <1>1, <1>4 DEF Put
<1>7. /\ t \in StripSet /\ SameRest(s, t) /\ Arranged(t.columns)
      /\ \A v : v \in Tiled(t) <=> \E l \in Among(new) : In(l, v)
      /\ \A v : v \in Soles(t) <=> \E l \in Among(new) : In(l, v) /\ Len(l.windows) = 1
  BY <1>5, <1>6, Recolumned
<1>8. Tiled(t) = Tiled(s) \cup {w}
  BY <1>2, <1>5, <1>7, TiledIs
<1>9. Soles(t) = Soles(s) \cup {w}
  BY <1>2, <1>5, <1>7, TiledIs
<1> QED BY <1>7, <1>8, <1>9

Regiven(s, c, k) == [s EXCEPT !.columns = [s.columns EXCEPT ![c] = k]]

(* Column c given up for another: of its own windows, and of windows not   *)
(* on the strip.                                                           *)
LEMMA ColumnGiven ==
    ASSUME NEW s \in StripSet, Arranged(s.columns), NEW c \in DOMAIN s.columns,
           NEW k \in ColumnSet, Single(k.windows),
           \A v : In(k, v) /\ v \in Tiled(s) => In(s.columns[c], v),
           NEW t, t = Regiven(s, c, k)
    PROVE  /\ t \in StripSet /\ SameRest(s, t) /\ Arranged(t.columns)
           /\ Len(t.columns) = Len(s.columns) /\ t.columns[c] = k
           /\ \A d \in DOMAIN s.columns : d # c => t.columns[d] = s.columns[d]
           /\ \A v : v \in Tiled(t) <=> In(k, v) \/ (v \in Tiled(s) /\ ~In(s.columns[c], v))
           /\ \A v : v \in Soles(t) <=> (Len(k.windows) = 1 /\ In(k, v)) \/ (v \in Soles(s) /\ ~In(s.columns[c], v))
<1>1. PICK new : new = [s.columns EXCEPT ![c] = k]
  OBVIOUS
<1>2. s.columns[c] \in ColumnSet /\ s.columns[c] \in Among(s.columns)
  BY ColumnFacts
<1>5. \A d \in DOMAIN s.columns, v \in Windows : In(s.columns[d], v) /\ In(k, v) => d = c
  <2> SUFFICES ASSUME NEW d \in DOMAIN s.columns, NEW v \in Windows, In(s.columns[d], v), In(k, v) PROVE d = c
    OBVIOUS
  <2>1. s.columns[d] \in Among(s.columns)
    BY ColumnFacts
  <2>2. v \in Tiled(s)
    BY <2>1, TiledIs
  <2>3. In(s.columns[c], v)
    BY <2>2
  <2> QED BY <2>3, OneColumn
<1>7. /\ Arranged(new) /\ Among(new) = (Among(s.columns) \ {s.columns[c]}) \cup {k}
      /\ Len(new) = Len(s.columns)
      /\ \A d \in DOMAIN s.columns : new[d] = IF d = c THEN k ELSE s.columns[d]
  BY <1>1, <1>5, ColumnReplaced
<1>9. /\ t \in StripSet /\ SameRest(s, t) /\ Arranged(t.columns) /\ t.columns = new
      /\ \A v : v \in Tiled(t) <=> \E l \in Among(new) : In(l, v)
      /\ \A v : v \in Soles(t) <=> \E l \in Among(new) : In(l, v) /\ Len(l.windows) = 1
  <2>1. Arranged(new)
    BY <1>7
  <2>2. t = [s EXCEPT !.columns = new]
    BY <1>1 DEF Regiven
  <2> QED BY <2>1, <2>2, Recolumned
<1>10. \A l \in Among(s.columns) : \A v : In(l, v) /\ In(s.columns[c], v) => l = s.columns[c]
  BY OneColumn DEF Among
<1>13. k \in Among(new) /\ \A l : l \in Among(s.columns) /\ l # s.columns[c] => l \in Among(new)
  BY <1>7
<1>14. \A l \in Among(new) : l = k \/ (l \in Among(s.columns) /\ l # s.columns[c])
  BY <1>7
<1>11. ASSUME NEW v
       PROVE  v \in Tiled(t) <=> In(k, v) \/ (v \in Tiled(s) /\ ~In(s.columns[c], v))
  <2>1. v \in Tiled(s) <=> \E l \in Among(s.columns) : In(l, v)
    BY TiledIs
  <2>2. v \in Tiled(t) <=> \E l \in Among(new) : In(l, v)
    BY <1>9
  <2>3. ASSUME v \in Tiled(t), ~In(k, v) PROVE v \in Tiled(s) /\ ~In(s.columns[c], v)
    BY <1>10, <1>14, <2>1, <2>2, <2>3
  <2>4. ASSUME v \in Tiled(s), ~In(s.columns[c], v) PROVE v \in Tiled(t)
    BY <1>13, <2>1, <2>2, <2>4
  <2> QED BY <1>13, <2>2, <2>3, <2>4
<1>12. ASSUME NEW v
       PROVE  v \in Soles(t) <=> (Len(k.windows) = 1 /\ In(k, v)) \/ (v \in Soles(s) /\ ~In(s.columns[c], v))
  <2>1. v \in Soles(s) <=> \E l \in Among(s.columns) : In(l, v) /\ Len(l.windows) = 1
    BY TiledIs
  <2>2. v \in Soles(t) <=> \E l \in Among(new) : In(l, v) /\ Len(l.windows) = 1
    BY <1>9
  <2>3. ASSUME v \in Soles(t), ~(Len(k.windows) = 1 /\ In(k, v)) PROVE v \in Soles(s) /\ ~In(s.columns[c], v)
    BY <1>10, <1>14, <2>1, <2>2, <2>3
  <2>4. ASSUME v \in Soles(s), ~In(s.columns[c], v) PROVE v \in Soles(t)
    BY <1>13, <2>1, <2>2, <2>4
  <2> QED BY <1>13, <2>2, <2>3, <2>4
<1> QED BY <1>7, <1>9, <1>11, <1>12

Lists(ws, v) == \E i \in DOMAIN ws : ws[i] = v
Rerowed(s, c, rows) == [s EXCEPT !.columns[c].windows = rows]

(* Column c given other rows: its own, and windows not on the strip.       *)
LEMMA RowsGiven ==
    ASSUME NEW s \in StripSet, Arranged(s.columns), NEW c \in DOMAIN s.columns,
           NEW rows \in Seq(Windows), rows # <<>>, Single(rows),
           \A v : Lists(rows, v) /\ v \in Tiled(s) => In(s.columns[c], v),
           NEW t, t = Rerowed(s, c, rows)
    PROVE  /\ t \in StripSet /\ SameRest(s, t) /\ Arranged(t.columns)
           /\ Len(t.columns) = Len(s.columns) /\ t.columns[c].windows = rows /\ t.columns[c].width = s.columns[c].width
           /\ \A d \in DOMAIN s.columns : d # c => t.columns[d] = s.columns[d]
           /\ \A v : v \in Tiled(t) <=> In(t.columns[c], v) \/ (v \in Tiled(s) /\ ~In(s.columns[c], v))
           /\ \A v : v \in Soles(t) <=> (Len(rows) = 1 /\ In(t.columns[c], v)) \/ (v \in Soles(s) /\ ~In(s.columns[c], v))
           /\ \A v : In(t.columns[c], v) <=> Lists(rows, v)
<1>1. PICK k : k = [s.columns[c] EXCEPT !.windows = rows]
  OBVIOUS
<1>2. s.columns[c] \in ColumnSet
  BY ColumnFacts
<1>3. k \in ColumnSet /\ k.windows = rows /\ k.width = s.columns[c].width
  BY <1>1, <1>2 DEF ColumnSet
<1>4. \A v : In(k, v) <=> Lists(rows, v)
  BY <1>3 DEF In, Lists
<1>5. \A v : In(k, v) /\ v \in Tiled(s) => In(s.columns[c], v)
  BY <1>4
<1>7. t = Regiven(s, c, k)
  BY <1>1 DEF Regiven, Rerowed
<1>8. /\ t \in StripSet /\ SameRest(s, t) /\ Arranged(t.columns)
      /\ Len(t.columns) = Len(s.columns) /\ t.columns[c] = k
      /\ \A d \in DOMAIN s.columns : d # c => t.columns[d] = s.columns[d]
      /\ \A v : v \in Tiled(t) <=> In(k, v) \/ (v \in Tiled(s) /\ ~In(s.columns[c], v))
      /\ \A v : v \in Soles(t) <=> (Len(k.windows) = 1 /\ In(k, v)) \/ (v \in Soles(s) /\ ~In(s.columns[c], v))
  <2>1. k \in ColumnSet /\ Single(k.windows)
    BY <1>3
  <2> QED BY <1>5, <1>7, <2>1, ColumnGiven
<1> QED BY <1>3, <1>4, <1>8

(* A window taken out of its column.                                       *)
LEMMA TakenApart ==
    ASSUME NEW s \in StripSet, Arranged(s.columns), NEW w, w \in Tiled(s), NEW t, t = TakeOut(s, w)
    PROVE  /\ t \in StripSet /\ SameRest(s, t) /\ Arranged(t.columns)
           /\ Tiled(t) = Tiled(s) \ {w} /\ Soles(s) \ {w} \subseteq Soles(t)
           /\ Len(t.columns) = IF Stacked(s, w) THEN Len(s.columns) ELSE Len(s.columns) - 1
<1>1. OnStrip(s, w)
  BY TiledIs
<1>2. PICK c : c = ColumnOf(s, w)
  OBVIOUS
<1>3. /\ t \in StripSet /\ SameRest(s, t) /\ Arranged(t.columns)
      /\ \A v : OnStrip(t, v) <=> OnStrip(s, v) /\ v # w
      /\ ~Stacked(s, w) => Among(t.columns) = Among(s.columns) \ {s.columns[c]} /\ Len(t.columns) = Len(s.columns) - 1
      /\ Stacked(s, w) =>
            /\ Among(t.columns) = (Among(s.columns) \ {s.columns[c]}) \cup {t.columns[c]}
            /\ Len(t.columns) = Len(s.columns)
  <2>1. /\ t \in StripSet /\ SameRest(s, t) /\ Arranged(t.columns)
        /\ \A v : OnStrip(t, v) <=> OnStrip(s, v) /\ v # w
    BY <1>1, <1>2, TakenOut
  <2>2. ASSUME ~Stacked(s, w)
        PROVE  Among(t.columns) = Among(s.columns) \ {s.columns[c]} /\ Len(t.columns) = Len(s.columns) - 1
    BY <1>1, <1>2, <2>2, TakenOut
  <2>3. ASSUME Stacked(s, w)
        PROVE  /\ Among(t.columns) = (Among(s.columns) \ {s.columns[c]}) \cup {t.columns[c]}
               /\ Len(t.columns) = Len(s.columns)
    BY <1>1, <1>2, <2>3, TakenOut
  <2> QED BY <2>1, <2>2, <2>3
<1>4. Tiled(t) = Tiled(s) \ {w}
  BY <1>3, TiledIs
<1>5. ASSUME NEW v \in Soles(s), v # w PROVE v \in Soles(t)
  <2>1. PICK k \in Among(s.columns) : In(k, v) /\ Len(k.windows) = 1
    BY TiledIs
  <2>2. In(s.columns[c], w) /\ s.columns[c] \in ColumnSet
    BY <1>1, <1>2, WhereIs
  <2>3. k # s.columns[c]
    <3>1. DOMAIN k.windows = 1..Len(k.windows)
      BY ColumnFacts DEF Among
    <3>2. DOMAIN k.windows = {1}
      BY <2>1, <3>1
    <3> QED BY <1>5, <2>1, <2>2, <3>2 DEF In
  <2>4. k \in Among(t.columns)
    BY <1>3, <2>1, <2>3
  <2> QED BY <1>3, <2>1, <2>4, TiledIs
<1> QED BY <1>3, <1>4, <1>5

(* A stacked window pulled out into a column of its own.                   *)
LEMMA PulledOut ==
    ASSUME NEW s \in StripSet, Arranged(s.columns), NEW w, w \in Tiled(s), Stacked(s, w),
           NEW at \in 1..(Len(s.columns) + 1), NEW t, t = PullOut(s, w, at)
    PROVE  /\ t \in StripSet /\ SameRest(s, t) /\ Arranged(t.columns)
           /\ Tiled(t) = Tiled(s) /\ Soles(s) \cup {w} \subseteq Soles(t)
<1>1. PICK out : out = TakeOut(s, w)
  OBVIOUS
<1>2. /\ out \in StripSet /\ SameRest(s, out) /\ Arranged(out.columns)
      /\ Tiled(out) = Tiled(s) \ {w} /\ Soles(s) \ {w} \subseteq Soles(out)
      /\ Len(out.columns) = Len(s.columns)
  BY <1>1, TakenApart
<1>3. w \in Windows /\ w \notin Tiled(out) /\ at \in 1..(Len(out.columns) + 1)
  BY <1>2, TiledIs
<1>4. t = Put(out, at, w)
  BY <1>1 DEF PullOut, Put
<1>5. /\ t \in StripSet /\ SameRest(out, t) /\ Arranged(t.columns)
      /\ Tiled(t) = Tiled(out) \cup {w} /\ Soles(t) = Soles(out) \cup {w}
  BY <1>2, <1>3, <1>4, LonePut
<1>6. SameRest(s, t)
  BY <1>2, <1>5 DEF SameRest
<1> QED BY <1>2, <1>5, <1>6

LEMMA SplitsOut ==
    ASSUME NEW s \in StripSet, Arranged(s.columns), NEW w, w \in Tiled(s), NEW side \in {"left", "right"},
           NEW t, t = SplitOut(s, w, side)
    PROVE  /\ t \in StripSet /\ SameRest(s, t) /\ Arranged(t.columns)
           /\ Tiled(t) = Tiled(s) /\ Soles(s) \cup {w} \subseteq Soles(t)
<1>1. CASE Stacked(s, w)
  <2>1. PICK at : at = ColumnOf(s, w) + (IF side = "left" THEN 0 ELSE 1)
    OBVIOUS
  <2>2. ColumnOf(s, w) \in DOMAIN s.columns /\ s.columns \in Seq(ColumnSet)
    <3>1. OnStrip(s, w)
      BY TiledIs
    <3> QED BY <3>1, WhereIs DEF Arranged
  <2>3. at \in 1..(Len(s.columns) + 1)
    BY <2>1, <2>2
  <2>4. t = PullOut(s, w, at)
    BY <1>1, <2>1 DEF SplitOut
  <2> QED BY <1>1, <2>3, <2>4, PulledOut
<1>2. CASE ~Stacked(s, w)
  <2>1. t = s
    BY <1>2 DEF SplitOut
  <2>2. w \in Soles(s)
    BY <1>2 DEF Soles
  <2> QED BY <2>1, <2>2 DEF SameRest
<1> QED BY <1>1, <1>2

LEMMA Rearranged ==
    ASSUME NEW s, Whole(s), NEW t \in StripSet, SameRest(s, t), Arranged(t.columns),
           Tiled(t) = Tiled(s), Soles(s) \subseteq Soles(t)
    PROVE  Whole(t)
  BY DEF Whole, SameRest, Fits, FullOnly

(* The neighbour a stacked window goes back beside is another of the strip.*)
LEMMA OriginIs ==
    ASSUME NEW s, Arranged(s.columns), NEW w, w \in Tiled(s), Stacked(s, w), NEW o, o = OriginOf(s, w)
    PROVE  /\ o \in [anchor : OptWindow, below : BOOLEAN]
           /\ o.anchor \in Tiled(s) /\ o.anchor # w
<1>1. PICK ws : ws = Stack(s, w)
  OBVIOUS
<1>2. PICK r : r = RowOf(s, w)
  OBVIOUS
<1>3. OnStrip(s, w)
  BY TiledIs
<1>4. /\ ws \in Seq(Windows) /\ r \in 1..Len(ws) /\ Len(ws) > 1 /\ ws[r] = w
      /\ \A i \in DOMAIN ws : ws[i] = w => i = r
      /\ s.columns[ColumnOf(s, w)] \in Among(s.columns)
      /\ \A v : (\E i \in DOMAIN ws : ws[i] = v) <=> In(s.columns[ColumnOf(s, w)], v)
  <2>1. /\ Stack(s, w) \in Seq(Windows) /\ RowOf(s, w) \in 1..Len(Stack(s, w)) /\ Stack(s, w)[RowOf(s, w)] = w
        /\ \A i \in DOMAIN Stack(s, w) : Stack(s, w)[i] = w => i = RowOf(s, w)
        /\ s.columns[ColumnOf(s, w)] \in Among(s.columns)
        /\ \A v : (\E i \in DOMAIN Stack(s, w) : Stack(s, w)[i] = v) <=> In(s.columns[ColumnOf(s, w)], v)
    BY <1>3, WhereIs
  <2>2. Len(Stack(s, w)) > 1
    BY DEF Stacked
  <2> QED BY <1>1, <1>2, <2>1, <2>2
<1>5. \A i \in DOMAIN ws : ws[i] \in Tiled(s)
  BY <1>4, TiledIs
<1>6. ASSUME NEW i \in DOMAIN ws, i # r, NEW b \in BOOLEAN, o = [anchor |-> ws[i], below |-> b]
      PROVE  /\ o \in [anchor : OptWindow, below : BOOLEAN]
             /\ o.anchor \in Tiled(s) /\ o.anchor # w
  <2>1. ws[i] \in OptWindow /\ ws[i] \in Tiled(s) /\ ws[i] # w
    BY <1>4, <1>5, <1>6 DEF OptWindow
  <2> QED BY <1>6, <2>1
<1>7. CASE r > 1
  <2>1. o = [anchor |-> ws[r - 1], below |-> TRUE]
    BY <1>1, <1>2, <1>7 DEF OriginOf
  <2>2. r - 1 \in DOMAIN ws /\ r - 1 # r
    BY <1>4, <1>7
  <2> QED BY <1>6, <2>1, <2>2
<1>8. CASE ~(r > 1)
  <2>1. o = [anchor |-> ws[r + 1], below |-> FALSE]
    BY <1>1, <1>2, <1>8 DEF OriginOf
  <2>2. r + 1 \in DOMAIN ws /\ r + 1 # r
    BY <1>4, <1>8
  <2> QED BY <1>6, <2>1, <2>2
<1> QED BY <1>7, <1>8

(* A strip whose windows at full width may, of X, share their column.      *)
Nearly(s, X) ==
    /\ s \in StripSet /\ Arranged(s.columns)
    /\ s.selected \in Tiled(s) \/ (Tiled(s) = {} /\ s.selected = NoWindow)
    /\ s.fullWidth \subseteq Soles(s) \cup X /\ FullOnly(s)
    /\ Fits(s, s.widthOrigins) /\ Fits(s, s.foldOrigins)

LEMMA NearlyIs == ASSUME NEW s PROVE Whole(s) <=> Nearly(s, {})
  BY DEF Whole, Nearly

LEMMA NoOriginIs == NoOrigin \in [anchor : OptWindow, below : BOOLEAN]
  BY DEF NoOrigin, OptWindow

LEMMA KeptAlone ==
    ASSUME NEW X, NEW s, Nearly(s, X), NEW c \in DOMAIN s.columns, NEW t, t = KeepFullWidthAlone(s, c)
    PROVE  /\ Nearly(t, X \ {w \in Windows : In(s.columns[c], w)})
           /\ t.columns = s.columns /\ t.selected = s.selected /\ t.ratio = s.ratio /\ Tiled(t) = Tiled(s)
           /\ HeldFor(s) => HeldFor(t)
           /\ Lengths(s) => Lengths(t)
<1>1. s \in StripSet /\ Arranged(s.columns)
  BY DEF Nearly
<1>2. s.columns[c] \in ColumnSet /\ s.columns[c] \in Among(s.columns) /\ Len(s.columns[c].windows) \in Nat \ {0}
  BY <1>1, ColumnFacts
<1> DEFINE here == {w \in Windows : In(s.columns[c], w)}
<1>3. PICK maximised : maximised = {w \in s.fullWidth : Holds(s.columns[c], w)}
  OBVIOUS
<1>4. maximised = s.fullWidth \cap here
  <2>1. s.fullWidth \subseteq Windows
    BY <1>1 DEF StripSet
  <2> QED BY <1>2, <1>3, <2>1, HoldsIn
<1>5. CASE Len(s.columns[c].windows) <= 1 \/ maximised = {}
  <2>1. t = s
    BY <1>3, <1>5 DEF KeepFullWidthAlone
  <2>2. Len(s.columns[c].windows) <= 1 => here \subseteq Soles(s)
    <3> SUFFICES ASSUME Len(s.columns[c].windows) <= 1, NEW w \in here PROVE w \in Soles(s)
      OBVIOUS
    <3>1. Len(s.columns[c].windows) = 1
      BY <1>2, OneOrMore
    <3> QED BY <1>1, <1>2, <3>1, TiledIs
  <2>3. s.fullWidth \subseteq Soles(s) \cup (X \ here)
    <3>1. s.fullWidth \subseteq Soles(s) \cup X
      BY DEF Nearly
    <3> QED BY <1>4, <1>5, <2>2, <3>1
  <2> HIDE DEF here
  <2>4. Nearly(s, X \ here)
    BY <2>3 DEF Nearly
  <2> QED BY <2>1, <2>4 DEF here
<1>6. CASE ~(Len(s.columns[c].windows) <= 1 \/ maximised = {})
  <2>1. PICK wo : wo = [w \in Windows |-> IF w \in maximised THEN NoOrigin ELSE s.widthOrigins[w]]
    OBVIOUS
  <2>2. PICK f : f = s.fullWidth \ maximised
    OBVIOUS
  <2>3. PICK u : u = [s EXCEPT !.fullWidth = f, !.widthOrigins = wo]
    OBVIOUS
  <2>4. t = Unpin(u)
    BY <1>3, <1>6, <2>1, <2>2, <2>3 DEF KeepFullWidthAlone
  <2>5. f \subseteq Windows /\ wo \in Origins
    BY <1>1, <2>1, <2>2, NoOriginIs DEF StripSet, Origins
  <2>6. u \in StripSet /\ u.fullWidth = f /\ u.widthOrigins = wo
    BY <1>1, <2>3, <2>5 DEF StripSet
  <2>7. /\ u.columns = s.columns /\ u.selected = s.selected /\ u.ratio = s.ratio /\ u.foldOrigins = s.foldOrigins
        /\ u.centre = s.centre /\ u.measured = s.measured
    BY <1>1, <2>3 DEF StripSet
  <2>8. Tiled(u) = Tiled(s) /\ Soles(u) = Soles(s)
    <3>1. \A w : (OnStrip(u, w) <=> OnStrip(s, w)) /\ (Stacked(u, w) <=> Stacked(s, w))
      BY <2>7 DEF OnStrip, Stacked, Stack, ColumnOf
    <3> QED BY <3>1 DEF Tiled, Soles
  <2> HIDE DEF here
  <2>9. Nearly(u, X \ here)
    <3>1. s.fullWidth \subseteq Soles(s) \cup X
      BY DEF Nearly
    <3>2. u.fullWidth \subseteq Soles(u) \cup (X \ here)
      BY <1>4, <2>2, <2>6, <2>8, <3>1
    <3>3. FullOnly(u) /\ Fits(u, u.widthOrigins)
      BY <2>1, <2>2, <2>6, <2>8 DEF Nearly, FullOnly, Fits
    <3>4. Fits(u, u.foldOrigins)
      BY <2>7, <2>8 DEF Nearly, Fits
    <3> QED BY <1>1, <2>6, <2>7, <2>8, <3>2, <3>3, <3>4 DEF Nearly
  <2>10. /\ t \in StripSet /\ Kin(u, t) /\ t.centre = u.centre /\ t.keptView = NoView /\ t.keptPlace = NoPlace
         /\ t.measured = [u.measured EXCEPT !.share = NoShare]
    BY <2>4, <2>6, UnpinIs
  <2>11. Tiled(t) = Tiled(u) /\ Soles(t) = Soles(u)
    BY <2>10, KinWhole
  <2>12. Nearly(t, X \ here)
    BY <2>9, <2>10, <2>11 DEF Nearly, Kin, FullOnly, Fits
  <2>13. HeldFor(s) => HeldFor(t)
    BY <2>7, <2>10, Typed DEF HeldFor, Kin
  <2>14. Lengths(t)
    <3>1. u.measured \in Measures
      BY <2>6 DEF StripSet
    <3>2. t.measured.share = NoShare
      BY <2>10, <3>1 DEF Measures
    <3> QED BY <2>10, <3>2, Typed DEF Lengths
  <2> QED BY <2>7, <2>8, <2>10, <2>11, <2>12, <2>13, <2>14 DEF Kin, here
<1> QED BY <1>5, <1>6

(* Rows with a window put among them, or after them.                       *)
LEMMA RowPut ==
    ASSUME NEW ws \in Seq(Windows), Single(ws), NEW w \in Windows, ~Lists(ws, w),
           NEW at \in 1..(Len(ws) + 1), NEW rows, rows = InsertAt(ws, at, w)
    PROVE  /\ rows \in Seq(Windows) /\ Single(rows) /\ Len(rows) = Len(ws) + 1
           /\ \A v : Lists(rows, v) <=> v = w \/ Lists(ws, v)
<1>0. \A i \in DOMAIN ws : ws[i] # w
  BY DEF Lists
<1>1. rows \in Seq(Windows) /\ Len(rows) = Len(ws) + 1
  BY InsertedAt
<1>2. \A i \in 1..(at - 1) : rows[i] = ws[i]
  BY InsertedAt
<1>3. rows[at] = w
  BY InsertedAt
<1>4. \A i \in at..Len(ws) : rows[i + 1] = ws[i]
  BY InsertedAt
<1>5. DOMAIN ws = 1..Len(ws) /\ DOMAIN rows = 1..(Len(ws) + 1) /\ Len(ws) \in Nat
  BY <1>1
<1> DEFINE From(i) == IF i < at THEN i ELSE i - 1
<1>6. \A i \in DOMAIN rows : i # at => From(i) \in DOMAIN ws /\ rows[i] = ws[From(i)]
  <2> SUFFICES ASSUME NEW i \in DOMAIN rows, i # at PROVE From(i) \in DOMAIN ws /\ rows[i] = ws[From(i)]
    OBVIOUS
  <2>1. CASE i < at
    BY <1>2, <1>5, <2>1
  <2>2. CASE i > at
    <3>1. i - 1 \in at..Len(ws) /\ (i - 1) + 1 = i
      BY <1>5, <2>2
    <3> QED BY <1>4, <1>5, <2>2, <3>1
  <2> QED BY <1>5, <2>1, <2>2
<1>7. \A i, j \in DOMAIN rows : i # at /\ j # at /\ From(i) = From(j) => i = j
  BY <1>5
<1>8. at \in DOMAIN rows
  BY <1>5
<1>9. Single(rows)
  <2> HIDE DEF From
  <2> SUFFICES ASSUME NEW i \in DOMAIN rows, NEW j \in DOMAIN rows, rows[i] = rows[j] PROVE i = j
    BY DEF Single
  <2>1. CASE i = at \/ j = at
    BY <1>0, <1>3, <1>6, <2>1
  <2>2. CASE i # at /\ j # at
    BY <1>6, <1>7, <2>2 DEF Single
  <2> QED BY <2>1, <2>2
<1>10. ASSUME NEW v PROVE (\E i \in DOMAIN rows : rows[i] = v) <=> v = w \/ \E i \in DOMAIN ws : ws[i] = v
  <2>1. ASSUME NEW i \in DOMAIN rows, rows[i] = v PROVE v = w \/ \E j \in DOMAIN ws : ws[j] = v
    <3> HIDE DEF From
    <3> QED BY <1>3, <1>6, <2>1
  <2>2. ASSUME NEW i \in DOMAIN ws, ws[i] = v PROVE \E j \in DOMAIN rows : rows[j] = v
    <3>1. CASE i < at
      <4>1. i \in DOMAIN rows /\ rows[i] = v
        BY <1>2, <1>5, <2>2, <3>1
      <4> QED BY <4>1
    <3>2. CASE i >= at
      <4>1. i + 1 \in DOMAIN rows /\ rows[i + 1] = v
        BY <1>4, <1>5, <2>2, <3>2
      <4> QED BY <4>1
    <3> QED BY <1>5, <3>1, <3>2
  <2> QED BY <1>3, <1>8, <2>1, <2>2
<1> QED BY <1>1, <1>9, <1>10 DEF Lists

LEMMA RowAppended ==
    ASSUME NEW ws \in Seq(Windows), Single(ws), NEW w \in Windows, ~Lists(ws, w),
           NEW rows, rows = Append(ws, w)
    PROVE  /\ rows \in Seq(Windows) /\ Single(rows) /\ Len(rows) = Len(ws) + 1
           /\ \A v : Lists(rows, v) <=> v = w \/ Lists(ws, v)
<1>0. \A i \in DOMAIN ws : ws[i] # w
  BY DEF Lists
<1>1. /\ rows \in Seq(Windows) /\ Len(rows) = Len(ws) + 1 /\ Len(ws) \in Nat
      /\ DOMAIN ws = 1..Len(ws) /\ DOMAIN rows = 1..(Len(ws) + 1)
      /\ rows[Len(ws) + 1] = w
  OBVIOUS
<1>2. \A i \in 1..Len(ws) : rows[i] = ws[i]
  OBVIOUS
<1>3. Single(rows)
  BY <1>0, <1>1, <1>2 DEF Single
<1>4. Len(ws) + 1 \in DOMAIN rows /\ \A i \in DOMAIN ws : i \in DOMAIN rows
  BY <1>1
<1>5. \A i \in DOMAIN rows : i \in DOMAIN ws \/ i = Len(ws) + 1
  BY <1>1
<1>6. \A v : (\E i \in DOMAIN rows : rows[i] = v) <=> v = w \/ \E i \in DOMAIN ws : ws[i] = v
  BY <1>1, <1>2, <1>4, <1>5
<1> QED BY <1>1, <1>3, <1>6 DEF Lists

LEMMA Peopled ==
    ASSUME NEW ws \in Seq(Windows), NEW n \in Nat, Len(ws) = n + 1
    PROVE  ws # <<>>
  OBVIOUS

(* A window taken out of its column and put among the rows of another,     *)
(* which it may not leave at full width.                                   *)
LEMMA Joined ==
    ASSUME NEW s, Whole(s), NEW w, w \in Tiled(s), NEW out, out = TakeOut(s, w), NEW c \in DOMAIN out.columns,
           NEW rows \in Seq(Windows), rows # <<>>, Single(rows),
           \A v : Lists(rows, v) <=> v = w \/ In(out.columns[c], v),
           NEW t, t = KeepFullWidthAlone(Rerowed(out, c, rows), c)
    PROVE  /\ Whole(t) /\ Tiled(t) = Tiled(s) /\ t.selected = s.selected /\ t.ratio = s.ratio
           /\ HeldFor(s) => HeldFor(t)
           /\ Lengths(s) => Lengths(t)
<1>1. s \in StripSet /\ Arranged(s.columns)
  BY DEF Whole
<1>2. /\ out \in StripSet /\ SameRest(s, out) /\ Arranged(out.columns)
      /\ Tiled(out) = Tiled(s) \ {w} /\ Soles(s) \ {w} \subseteq Soles(out)
  BY <1>1, TakenApart
<1>3. out.columns[c] \in Among(out.columns)
  BY DEF Among
<1>4. \A v : In(out.columns[c], v) => v \in Tiled(out)
  BY <1>2, <1>3, TiledIs
<1>5. \A v : Lists(rows, v) /\ v \in Tiled(out) => In(out.columns[c], v)
  BY <1>2
<1>6. PICK r : r = Rerowed(out, c, rows)
  OBVIOUS
<1>7. /\ r \in StripSet /\ SameRest(out, r) /\ Arranged(r.columns) /\ Len(r.columns) = Len(out.columns)
      /\ \A v : v \in Tiled(r) <=> In(r.columns[c], v) \/ (v \in Tiled(out) /\ ~In(out.columns[c], v))
      /\ \A v : v \in Soles(r) <=> (Len(rows) = 1 /\ In(r.columns[c], v)) \/ (v \in Soles(out) /\ ~In(out.columns[c], v))
      /\ \A v : In(r.columns[c], v) <=> Lists(rows, v)
  BY <1>2, <1>5, <1>6, RowsGiven
<1>8. \A v : In(r.columns[c], v) <=> v = w \/ In(out.columns[c], v)
  BY <1>7
<1>9. Tiled(r) = Tiled(s)
  BY <1>2, <1>4, <1>7, <1>8
<1> DEFINE here == {v \in Windows : In(r.columns[c], v)}
<1>10. s.fullWidth \subseteq Soles(r) \cup here
  <2>1. s.fullWidth \subseteq Soles(s) /\ s.fullWidth \subseteq Windows
    BY <1>1 DEF Whole, StripSet
  <2> SUFFICES ASSUME NEW v \in s.fullWidth, ~In(r.columns[c], v) PROVE v \in Soles(r)
    BY <2>1
  <2>2. v # w /\ ~In(out.columns[c], v)
    BY <1>8
  <2> QED BY <1>2, <1>7, <2>1, <2>2
<1>11. Nearly(r, here)
  <2> HIDE DEF here
  <2>1. /\ r.selected = s.selected /\ r.fullWidth = s.fullWidth /\ r.widthOrigins = s.widthOrigins
        /\ r.foldOrigins = s.foldOrigins
    BY <1>2, <1>7 DEF SameRest
  <2> QED BY <1>7, <1>9, <1>10, <2>1 DEF Whole, Nearly, Fits, FullOnly
<1>12. c \in DOMAIN r.columns
  BY <1>2, <1>7 DEF Arranged
<1>13. t = KeepFullWidthAlone(r, c)
  BY <1>6
<1> HIDE DEF here
<1>14. /\ Nearly(t, here \ {v \in Windows : In(r.columns[c], v)})
       /\ t.selected = r.selected /\ t.ratio = r.ratio /\ Tiled(t) = Tiled(r)
       /\ HeldFor(r) => HeldFor(t)
       /\ Lengths(r) => Lengths(t)
  BY <1>11, <1>12, <1>13, KeptAlone
<1>15. here \ {v \in Windows : In(r.columns[c], v)} = {}
  BY DEF here
<1>16. Whole(t)
  BY <1>14, <1>15, NearlyIs
<1>17. (HeldFor(s) => HeldFor(r)) /\ (Lengths(s) => Lengths(r)) /\ r.selected = s.selected /\ r.ratio = s.ratio
  BY <1>2, <1>7 DEF SameRest, HeldFor, Lengths
<1> QED BY <1>9, <1>14, <1>16, <1>17

LEMMA Restored ==
    ASSUME NEW s, Whole(s), NEW w, NEW origin, origin.anchor # w, NEW t, t = Restore(s, w, origin)
    PROVE  /\ Whole(t) /\ Tiled(t) = Tiled(s) /\ t.selected = s.selected /\ t.ratio = s.ratio
           /\ HeldFor(s) => HeldFor(t)
           /\ Lengths(s) => Lengths(t)
<1>1. CASE ~OnStrip(s, origin.anchor) \/ ~OnStrip(s, w)
  <2>1. t = s
    BY <1>1 DEF Restore
  <2> QED BY <2>1
<1>2. CASE OnStrip(s, origin.anchor) /\ OnStrip(s, w)
  <2>0. s \in StripSet /\ Arranged(s.columns)
    BY DEF Whole
  <2>1. w \in Tiled(s) /\ origin.anchor \in Tiled(s) /\ w \in Windows
    BY <1>2, <2>0, TiledIs
  <2>2. PICK out : out = TakeOut(s, w)
    OBVIOUS
  <2>3. out \in StripSet /\ Arranged(out.columns) /\ Tiled(out) = Tiled(s) \ {w}
    BY <2>0, <2>1, <2>2, TakenApart
  <2>4. OnStrip(out, origin.anchor)
    BY <2>1, <2>3, TiledIs
  <2>5. PICK c : c = ColumnOf(out, origin.anchor)
    OBVIOUS
  <2>6. PICK at : at = RowOf(out, origin.anchor) + (IF origin.below THEN 1 ELSE 0)
    OBVIOUS
  <2>7. PICK ws : ws = out.columns[c].windows
    OBVIOUS
  <2>8. /\ c \in DOMAIN out.columns /\ ws \in Seq(Windows) /\ Single(ws) /\ Len(ws) \in Nat
        /\ RowOf(out, origin.anchor) \in 1..Len(ws) /\ out.columns[c] \in Among(out.columns)
    BY <2>3, <2>4, <2>5, <2>7, WhereIs
  <2>9. at \in 1..(Len(ws) + 1)
    BY <2>6, <2>8
  <2>10. ~In(out.columns[c], w)
    BY <2>3, <2>8, TiledIs
  <2>11. ~Lists(ws, w)
    BY <2>7, <2>10 DEF In, Lists
  <2>12. PICK rows : rows = InsertAt(ws, at, w)
    OBVIOUS
  <2>13. /\ rows \in Seq(Windows) /\ Single(rows) /\ Len(rows) = Len(ws) + 1
         /\ \A v : Lists(rows, v) <=> v = w \/ Lists(ws, v)
    BY <2>1, <2>8, <2>9, <2>11, <2>12, RowPut
  <2>14. rows # <<>>
    BY <2>8, <2>13, Peopled
  <2>15. \A v : Lists(rows, v) <=> v = w \/ In(out.columns[c], v)
    BY <2>7, <2>13 DEF In, Lists
  <2>16. t = KeepFullWidthAlone(Rerowed(out, c, rows), c)
    <3>1. t = KeepFullWidthAlone([out EXCEPT !.columns[c].windows = InsertAt(@, at, w)], c)
      BY <1>2, <2>2, <2>5, <2>6 DEF Restore
    <3>2. [out EXCEPT !.columns[c].windows = InsertAt(@, at, w)] = [out EXCEPT !.columns[c].windows = rows]
      BY <2>7, <2>12
    <3> QED BY <3>1, <3>2 DEF Rerowed
  <2> QED BY <2>1, <2>2, <2>8, <2>13, <2>14, <2>15, <2>16, Joined
<1> QED BY <1>1, <1>2

Choosing(s, w) == [s EXCEPT !.selected = w]

LEMMA ChosenIs ==
    ASSUME NEW s \in StripSet, NEW w \in OptWindow, NEW t, t = Choosing(s, w)
    PROVE  /\ t \in StripSet /\ Tiled(t) = Tiled(s) /\ Soles(t) = Soles(s) /\ t.selected = w /\ t.ratio = s.ratio
           /\ t.centre = s.centre /\ t.keptView = s.keptView /\ t.keptPlace = s.keptPlace
           /\ t.columns = s.columns /\ t.fullWidth = s.fullWidth /\ t.measured = s.measured
           /\ t.widthOrigins = s.widthOrigins /\ t.foldOrigins = s.foldOrigins
           /\ Lengths(t) <=> Lengths(s)
<1>3. t \in StripSet
  BY DEF Choosing, StripSet
<1>4. /\ t.selected = w /\ t.columns = s.columns /\ t.ratio = s.ratio /\ t.fullWidth = s.fullWidth
      /\ t.widthOrigins = s.widthOrigins /\ t.foldOrigins = s.foldOrigins
      /\ t.centre = s.centre /\ t.keptView = s.keptView /\ t.keptPlace = s.keptPlace /\ t.measured = s.measured
  BY DEF Choosing, StripSet
<1>5. \A v : (OnStrip(t, v) <=> OnStrip(s, v)) /\ (Stacked(t, v) <=> Stacked(s, v))
  BY <1>4 DEF OnStrip, Stacked, Stack, ColumnOf
<1>6. Tiled(t) = Tiled(s) /\ Soles(t) = Soles(s)
  BY <1>5 DEF Tiled, Soles
<1>8. Lengths(t) <=> Lengths(s)
  BY <1>4 DEF Lengths
<1> QED BY <1>3, <1>4, <1>6, <1>8

LEMMA Chosen ==
    ASSUME NEW s, Whole(s), NEW w \in Tiled(s), NEW t, t = Choosing(s, w)
    PROVE  /\ Whole(t) /\ Tiled(t) = Tiled(s) /\ Soles(t) = Soles(s) /\ t.selected = w /\ t.ratio = s.ratio
           /\ t.centre = s.centre /\ t.keptView = s.keptView /\ t.keptPlace = s.keptPlace
           /\ t.columns = s.columns /\ t.fullWidth = s.fullWidth /\ t.measured = s.measured
           /\ t.widthOrigins = s.widthOrigins /\ t.foldOrigins = s.foldOrigins
           /\ Lengths(s) => Lengths(t)
<1>1. s \in StripSet /\ w \in OptWindow
  BY DEF Whole, Tiled, OptWindow
<1>2. /\ t \in StripSet /\ Tiled(t) = Tiled(s) /\ Soles(t) = Soles(s) /\ t.selected = w /\ t.ratio = s.ratio
      /\ t.centre = s.centre /\ t.keptView = s.keptView /\ t.keptPlace = s.keptPlace
      /\ t.columns = s.columns /\ t.fullWidth = s.fullWidth /\ t.measured = s.measured
      /\ t.widthOrigins = s.widthOrigins /\ t.foldOrigins = s.foldOrigins
      /\ Lengths(t) <=> Lengths(s)
  BY <1>1, ChosenIs
<1>3. Whole(t)
  BY <1>2 DEF Whole, Fits, FullOnly
<1> QED BY <1>2, <1>3

LEMMA MovedToEnd ==
    ASSUME NEW s, Whole(s), NEW w, w \in Tiled(s), NEW target \in DOMAIN s.columns, target # ColumnOf(s, w),
           NEW t, t = MoveToColumnEnd(s, w, target)
    PROVE  /\ Whole(t) /\ Tiled(t) = Tiled(s) /\ t.selected = w /\ t.ratio = s.ratio
           /\ HeldFor(t) /\ Lengths(t) /\ t.keptView = NoView
<1>0. s \in StripSet /\ Arranged(s.columns) /\ w \in Windows
  BY TiledIs DEF Whole
<1>1. PICK out : out = TakeOut(s, w)
  OBVIOUS
<1>2. /\ out \in StripSet /\ Arranged(out.columns) /\ Tiled(out) = Tiled(s) \ {w}
      /\ Len(out.columns) = IF Stacked(s, w) THEN Len(s.columns) ELSE Len(s.columns) - 1
  BY <1>0, <1>1, TakenApart
<1>3. PICK c : c = IF ~Stacked(s, w) /\ ColumnOf(s, w) < target THEN target - 1 ELSE target
  OBVIOUS
<1>4. c \in DOMAIN out.columns
  <2>1. ColumnOf(s, w) \in DOMAIN s.columns
    <3>1. OnStrip(s, w)
      BY <1>0, TiledIs
    <3> QED BY <1>0, <3>1, WhereIs
  <2>2. DOMAIN s.columns = 1..Len(s.columns) /\ Len(s.columns) \in Nat /\ DOMAIN out.columns = 1..Len(out.columns)
    BY <1>0, <1>2 DEF Arranged
  <2> QED BY <1>2, <1>3, <2>1, <2>2
<1>5. PICK ws : ws = out.columns[c].windows
  OBVIOUS
<1>6. ws \in Seq(Windows) /\ Single(ws) /\ Len(ws) \in Nat /\ out.columns[c] \in Among(out.columns)
  BY <1>2, <1>4, <1>5, ColumnFacts
<1>7. ~In(out.columns[c], w)
  BY <1>2, <1>6, TiledIs
<1>8. ~Lists(ws, w)
  BY <1>5, <1>7 DEF In, Lists
<1>9. PICK rows : rows = Append(ws, w)
  OBVIOUS
<1>10. /\ rows \in Seq(Windows) /\ Single(rows) /\ Len(rows) = Len(ws) + 1
       /\ \A v : Lists(rows, v) <=> v = w \/ Lists(ws, v)
  BY <1>0, <1>6, <1>8, <1>9, RowAppended
<1>11. rows # <<>>
  BY <1>6, <1>10, Peopled
<1>12. \A v : Lists(rows, v) <=> v = w \/ In(out.columns[c], v)
  BY <1>5, <1>10 DEF In, Lists
<1>13. PICK u : u = KeepFullWidthAlone(Rerowed(out, c, rows), c)
  OBVIOUS
<1>14. Whole(u) /\ Tiled(u) = Tiled(s) /\ u.ratio = s.ratio
  BY <1>1, <1>4, <1>10, <1>11, <1>12, <1>13, Joined
<1>15. PICK v : v = Choosing(u, w)
  OBVIOUS
<1>16. Whole(v) /\ Tiled(v) = Tiled(s) /\ v.selected = w /\ v.ratio = s.ratio
  BY <1>14, <1>15, Chosen
<1>17. t = Align(v)
  <2>1. [out EXCEPT !.columns[c].windows = Append(@, w)] = [out EXCEPT !.columns[c].windows = rows]
    BY <1>5, <1>9
  <2>2. t = Align([KeepFullWidthAlone([out EXCEPT !.columns[c].windows = Append(@, w)], c) EXCEPT !.selected = w])
    BY <1>1, <1>3 DEF MoveToColumnEnd
  <2> QED BY <1>13, <1>15, <2>1, <2>2 DEF Rerowed, Choosing
<1>18. Shown(v, t, FALSE)
  BY <1>16, <1>17, AlignShows DEF Whole
<1>19. HeldFor(t) /\ Lengths(t) /\ Kin(v, t) /\ t \in StripSet /\ t.keptView = NoView
  BY <1>18 DEF Shown
<1>20. Whole(t) /\ Tiled(t) = Tiled(v)
  BY <1>16, <1>19, KinWhole
<1> QED BY <1>16, <1>19, <1>20 DEF Kin

-----------------------------------------------------------------------------
(* Full width entered and left, and widths given.                          *)

(* What an operation leaves of a strip that is only to be shown.           *)
Changes(s, t) ==
    /\ Whole(t) /\ Tiled(t) = Tiled(s) /\ t.selected = s.selected /\ t.ratio = s.ratio
    /\ HeldFor(s) => HeldFor(t)
    /\ Lengths(s) => Lengths(t)

LEMMA Tame ==
    ASSUME NEW s, Whole(s)
    PROVE  /\ s \in StripSet /\ Arranged(s.columns) /\ s.fullWidth \subseteq Windows /\ s.fullWidth \subseteq Soles(s)
           /\ s.widthOrigins \in Origins /\ s.foldOrigins \in Origins /\ s.ratio \in Int
           /\ Tiled(s) \subseteq Windows /\ Soles(s) \subseteq Tiled(s) /\ s.selected \in OptWindow
  BY DEF Whole, StripSet, Tiled, Soles

Widened(s, full, origins) == [s EXCEPT !.fullWidth = full, !.widthOrigins = origins]

LEMMA WidenedIs ==
    ASSUME NEW s \in StripSet, NEW full \in SUBSET Windows, NEW origins \in Origins, NEW t, t = Widened(s, full, origins)
    PROVE  /\ t \in StripSet /\ t.fullWidth = full /\ t.widthOrigins = origins
           /\ t.columns = s.columns /\ t.selected = s.selected /\ t.ratio = s.ratio /\ t.foldOrigins = s.foldOrigins
           /\ t.centre = s.centre /\ t.keptView = s.keptView /\ t.keptPlace = s.keptPlace /\ t.measured = s.measured
           /\ t.intent = s.intent /\ t.offset = s.offset
           /\ Tiled(t) = Tiled(s) /\ Soles(t) = Soles(s)
           /\ HeldFor(t) <=> HeldFor(s)
           /\ Lengths(t) <=> Lengths(s)
<1>1. t \in StripSet /\ t.fullWidth = full /\ t.widthOrigins = origins
  BY DEF StripSet, Widened
<1>2. /\ t.columns = s.columns /\ t.selected = s.selected /\ t.ratio = s.ratio /\ t.foldOrigins = s.foldOrigins
      /\ t.centre = s.centre /\ t.keptView = s.keptView /\ t.keptPlace = s.keptPlace /\ t.measured = s.measured
      /\ t.intent = s.intent /\ t.offset = s.offset
  BY DEF StripSet, Widened
<1>3. \A v : (OnStrip(t, v) <=> OnStrip(s, v)) /\ (Stacked(t, v) <=> Stacked(s, v))
  BY <1>2 DEF OnStrip, Stacked, Stack, ColumnOf
<1>4. Tiled(t) = Tiled(s) /\ Soles(t) = Soles(s)
  BY <1>3 DEF Tiled, Soles
<1>5. HeldFor(t) <=> HeldFor(s)
  BY <1>2 DEF HeldFor
<1>6. Lengths(t) <=> Lengths(s)
  BY <1>2 DEF Lengths
<1> QED BY <1>1, <1>2, <1>4, <1>5, <1>6

LEMMA Unwidened ==
    ASSUME NEW s, Whole(s), NEW w \in Windows,
           NEW t, t = Widened(s, s.fullWidth \ {w}, [s.widthOrigins EXCEPT ![w] = NoOrigin])
    PROVE  /\ Changes(s, t) /\ t.columns = s.columns /\ Soles(t) = Soles(s) /\ w \notin t.fullWidth
           /\ t.centre = s.centre
<1>1. PICK full : full = s.fullWidth \ {w}
  OBVIOUS
<1>2. PICK wo : wo = [s.widthOrigins EXCEPT ![w] = NoOrigin]
  OBVIOUS
<1>3. full \in SUBSET Windows /\ wo \in Origins /\ wo[w] = NoOrigin /\ \A v \in Windows : v # w => wo[v] = s.widthOrigins[v]
  BY <1>1, <1>2, Tame, NoOriginIs DEF Origins
<1>4. t = Widened(s, full, wo) /\ s \in StripSet
  BY <1>1, <1>2, Tame
<1>5. /\ t \in StripSet /\ t.fullWidth = full /\ t.widthOrigins = wo
      /\ t.columns = s.columns /\ t.selected = s.selected /\ t.ratio = s.ratio /\ t.foldOrigins = s.foldOrigins
      /\ t.centre = s.centre
      /\ Tiled(t) = Tiled(s) /\ Soles(t) = Soles(s)
      /\ HeldFor(t) <=> HeldFor(s)
      /\ Lengths(t) <=> Lengths(s)
  BY <1>3, <1>4, WidenedIs
<1>6. FullOnly(t)
  BY <1>1, <1>3, <1>5 DEF FullOnly, Whole
<1>7. Fits(t, t.widthOrigins)
  BY <1>3, <1>5 DEF Fits, Whole
<1>8. Whole(t)
  BY <1>1, <1>5, <1>6, <1>7 DEF Whole, Fits
<1> QED BY <1>1, <1>5, <1>8 DEF Changes

LEMMA Entered ==
    ASSUME NEW s, Whole(s), NEW w, w \in Tiled(s), NEW t, t = EnterFullWidth(s, w)
    PROVE  Changes(s, t)
<1>0. s \in StripSet /\ Arranged(s.columns) /\ w \in Windows
  BY Tame
<1>1. PICK u : u = SplitOut(s, w, "left")
  OBVIOUS
<1>2. /\ u \in StripSet /\ SameRest(s, u) /\ Arranged(u.columns)
      /\ Tiled(u) = Tiled(s) /\ Soles(s) \cup {w} \subseteq Soles(u)
  BY <1>0, <1>1, SplitsOut
<1>3. PICK o : o = IF Stacked(s, w) THEN OriginOf(s, w) ELSE s.widthOrigins[w]
  OBVIOUS
<1>4. /\ o \in [anchor : OptWindow, below : BOOLEAN]
      /\ o # NoOrigin => o.anchor \in Tiled(s) /\ o.anchor # w
  <2>1. CASE Stacked(s, w)
    <3>1. o = OriginOf(s, w)
      BY <1>3, <2>1
    <3> QED BY <1>0, <2>1, <3>1, OriginIs
  <2>2. CASE ~Stacked(s, w)
    BY <1>0, <1>3, <2>2, Tame DEF Whole, Fits, Origins
  <2> QED BY <2>1, <2>2
<1>5. PICK full : full = s.fullWidth \cup {w}
  OBVIOUS
<1>6. PICK wo : wo = [s.widthOrigins EXCEPT ![w] = o]
  OBVIOUS
<1>7. /\ full \in SUBSET Windows /\ wo \in Origins /\ wo[w] = o
      /\ \A v \in Windows : v # w => wo[v] = s.widthOrigins[v]
  BY <1>0, <1>4, <1>5, <1>6, Tame DEF Origins
<1>8. t = Widened(u, full, wo)
  <2>1. u.fullWidth = s.fullWidth /\ u.widthOrigins = s.widthOrigins /\ u.widthOrigins \in Origins
    BY <1>2, Tame DEF SameRest
  <2>2. t = [u EXCEPT !.fullWidth = @ \cup {w}, !.widthOrigins[w] = IF Stacked(s, w) THEN OriginOf(s, w) ELSE @]
    BY <1>1 DEF EnterFullWidth
  <2>3. [u EXCEPT !.fullWidth = @ \cup {w}, !.widthOrigins[w] = IF Stacked(s, w) THEN OriginOf(s, w) ELSE @]
        = [u EXCEPT !.fullWidth = full, !.widthOrigins[w] = o]
    BY <1>3, <1>5, <2>1
  <2>4. [u EXCEPT !.fullWidth = full, !.widthOrigins[w] = o] = [u EXCEPT !.fullWidth = full, !.widthOrigins = wo]
    BY <1>2, <1>6, <2>1 DEF StripSet
  <2> QED BY <2>2, <2>3, <2>4 DEF Widened
<1>9. /\ t \in StripSet /\ t.fullWidth = full /\ t.widthOrigins = wo
      /\ t.columns = u.columns /\ t.selected = u.selected /\ t.ratio = u.ratio /\ t.foldOrigins = u.foldOrigins
      /\ Tiled(t) = Tiled(u) /\ Soles(t) = Soles(u)
      /\ HeldFor(t) <=> HeldFor(u)
      /\ Lengths(t) <=> Lengths(u)
  BY <1>2, <1>7, <1>8, WidenedIs
<1>10. (HeldFor(u) <=> HeldFor(s)) /\ (Lengths(u) <=> Lengths(s))
  BY <1>2 DEF SameRest, HeldFor, Lengths
<1>11. t.selected = s.selected /\ t.ratio = s.ratio /\ t.foldOrigins = s.foldOrigins /\ Tiled(t) = Tiled(s)
  BY <1>2, <1>9 DEF SameRest
<1>12. FullOnly(t)
  BY <1>5, <1>7, <1>9 DEF FullOnly, Whole
<1>13. Fits(t, wo)
  BY <1>4, <1>7, <1>11 DEF Fits, Whole
<1>14. full \subseteq Soles(t)
  BY <1>2, <1>5, <1>9, Tame
<1>15. Fits(t, t.foldOrigins)
  BY <1>11 DEF Whole, Fits
<1>16. t.selected \in Tiled(t) \/ (Tiled(t) = {} /\ t.selected = NoWindow)
  BY <1>11 DEF Whole
<1>17. Arranged(t.columns)
  BY <1>2, <1>9
<1>18. Whole(t)
  BY <1>9, <1>12, <1>13, <1>14, <1>15, <1>16, <1>17 DEF Whole
<1> QED BY <1>9, <1>10, <1>11, <1>18 DEF Changes

LEMMA LeftIs ==
    ASSUME NEW s, Whole(s), NEW w \in Windows
    PROVE  [s EXCEPT !.fullWidth = @ \ {w}, !.widthOrigins[w] = NoOrigin]
               = Widened(s, s.fullWidth \ {w}, [s.widthOrigins EXCEPT ![w] = NoOrigin])
  BY Tame DEF Widened, StripSet

LEMMA LeftRestoring ==
    ASSUME NEW s, Whole(s), NEW w \in Windows, NEW t, t = LeaveFullWidthRestoring(s, w)
    PROVE  Changes(s, t)
<1>1. PICK u : u = Widened(s, s.fullWidth \ {w}, [s.widthOrigins EXCEPT ![w] = NoOrigin])
  OBVIOUS
<1>2. u = [s EXCEPT !.fullWidth = @ \ {w}, !.widthOrigins[w] = NoOrigin]
  BY <1>1, LeftIs
<1>3. Changes(s, u)
  BY <1>1, Unwidened
<1>4. PICK o : o = s.widthOrigins[w]
  OBVIOUS
<1>5. t = IF o = NoOrigin THEN u ELSE Restore(u, w, o)
  BY <1>2, <1>4 DEF LeaveFullWidthRestoring
<1>6. CASE o = NoOrigin
  BY <1>3, <1>5, <1>6
<1>7. CASE o # NoOrigin
  <2>1. o.anchor # w
    BY <1>4, <1>7 DEF Whole, Fits
  <2>2. t = Restore(u, w, o) /\ Whole(u)
    BY <1>3, <1>5, <1>7 DEF Changes
  <2>3. /\ Whole(t) /\ Tiled(t) = Tiled(u) /\ t.selected = u.selected /\ t.ratio = u.ratio
        /\ HeldFor(u) => HeldFor(t)
        /\ Lengths(u) => Lengths(t)
    BY <2>1, <2>2, Restored
  <2> QED BY <1>3, <2>3 DEF Changes
<1> QED BY <1>6, <1>7

Rewidthed(s, c, width) == [s EXCEPT !.columns[c].width = width]

LEMMA WidthGiven ==
    ASSUME NEW s, Whole(s), NEW c \in DOMAIN s.columns, NEW width \in WidthSet, NEW t, t = Rewidthed(s, c, width)
    PROVE  Changes(s, t)
<1>0. s \in StripSet /\ Arranged(s.columns)
  BY Tame
<1>1. PICK k : k = [s.columns[c] EXCEPT !.width = width]
  OBVIOUS
<1>2. s.columns[c] \in ColumnSet /\ s.columns[c] \in Among(s.columns) /\ Single(s.columns[c].windows)
  BY <1>0, ColumnFacts
<1>3. k \in ColumnSet /\ k.windows = s.columns[c].windows
  BY <1>1, <1>2 DEF ColumnSet
<1>4. \A v : In(k, v) <=> In(s.columns[c], v)
  BY <1>3 DEF In
<1>5. t = Regiven(s, c, k)
  BY <1>1 DEF Regiven, Rewidthed
<1>6. Single(k.windows)
  BY <1>2, <1>3
<1>7. /\ t \in StripSet /\ SameRest(s, t) /\ Arranged(t.columns)
      /\ \A v : v \in Tiled(t) <=> In(k, v) \/ (v \in Tiled(s) /\ ~In(s.columns[c], v))
      /\ \A v : v \in Soles(t) <=> (Len(k.windows) = 1 /\ In(k, v)) \/ (v \in Soles(s) /\ ~In(s.columns[c], v))
  BY <1>0, <1>3, <1>4, <1>5, <1>6, ColumnGiven
<1>8. \A v : In(s.columns[c], v) => v \in Tiled(s)
  BY <1>0, <1>2, TiledIs
<1>9. ASSUME NEW v, In(s.columns[c], v) PROVE v \in Soles(s) => Len(k.windows) = 1
  <2>1. SUFFICES ASSUME v \in Soles(s) PROVE Len(s.columns[c].windows) = 1
    BY <1>3
  <2>2. PICK l \in Among(s.columns) : In(l, v) /\ Len(l.windows) = 1
    BY <1>0, <2>1, TiledIs
  <2>3. l = s.columns[c]
    BY <1>0, <1>9, <2>2, OneColumn DEF Among
  <2> QED BY <2>2, <2>3
<1>10. Tiled(t) = Tiled(s)
  BY <1>4, <1>7, <1>8
<1>11. Soles(s) \subseteq Soles(t)
  BY <1>4, <1>7, <1>9
<1>12. Whole(t)
  BY <1>7, <1>10, <1>11, Rearranged
<1> QED BY <1>7, <1>10, <1>12 DEF Changes, SameRest, HeldFor, Lengths

LEMMA LeftInPlace ==
    ASSUME NEW s, Whole(s), NEW w \in Windows, NEW t, t = LeaveFullWidthInPlace(s, w)
    PROVE  Changes(s, t) /\ t.columns = s.columns /\ w \notin t.fullWidth /\ t.centre = s.centre /\ t.keptView = NoView
<1>1. PICK u : u = Widened(s, s.fullWidth \ {w}, [s.widthOrigins EXCEPT ![w] = NoOrigin])
  OBVIOUS
<1>2. t = Unpin(u)
  BY <1>1, LeftIs DEF LeaveFullWidthInPlace
<1>3. Changes(s, u) /\ u.columns = s.columns /\ w \notin u.fullWidth /\ u.centre = s.centre
  BY <1>1, Unwidened
<1>4. u \in StripSet
  BY <1>3 DEF Changes, Whole
<1>5. /\ t \in StripSet /\ Kin(u, t) /\ t.centre = u.centre /\ t.keptView = NoView /\ t.keptPlace = NoPlace
      /\ t.measured = [u.measured EXCEPT !.share = NoShare]
  BY <1>2, <1>4, UnpinIs
<1>6. Whole(t) /\ Tiled(t) = Tiled(u)
  BY <1>3, <1>5, KinWhole DEF Changes
<1>7. u.measured \in Measures
  BY <1>4 DEF StripSet
<1>8. t.measured.share = NoShare
  BY <1>5, <1>7 DEF Measures
<1>9. Lengths(t)
  BY <1>5, <1>8, Typed DEF Lengths
<1>10. HeldFor(u) => HeldFor(t)
  BY <1>5, Typed DEF HeldFor, Kin
<1> QED BY <1>3, <1>5, <1>6, <1>9, <1>10 DEF Changes, Kin

LEMMA GivenIs == ASSUME NEW kind, NEW x \in Int PROVE Given(kind, x) \in WidthSet
  BY DEF Given, WidthSet

LEMMA ColumnWidthSet ==
    ASSUME NEW s, Whole(s), NEW w, w \in Tiled(s), NEW kind, NEW x \in Int, NEW t, t = SetColumnWidth(s, w, kind, x)
    PROVE  Changes(s, t)
<1>1. s \in StripSet /\ Arranged(s.columns) /\ w \in Windows /\ s.ratio \in Int
  BY Tame
<1>2. ColumnOf(s, w) \in DOMAIN s.columns
  BY <1>1, TiledIs, WhereIs
<1>3. PICK u : u = LeaveFullWidthInPlace(s, w)
  OBVIOUS
<1>4. Changes(s, u) /\ u.columns = s.columns
  BY <1>1, <1>3, LeftInPlace
<1>5. PICK width : width = Given(kind, x - s.ratio)
  OBVIOUS
<1>6. width \in WidthSet
  BY <1>1, <1>5, GivenIs
<1>7. t = Rewidthed(u, ColumnOf(s, w), width)
  BY <1>3, <1>5 DEF SetColumnWidth, Rewidthed
<1>8. Changes(u, t)
  <2>1. Whole(u) /\ ColumnOf(s, w) \in DOMAIN u.columns
    BY <1>2, <1>4 DEF Changes
  <2> QED BY <1>6, <1>7, <2>1, WidthGiven
<1> QED BY <1>4, <1>8 DEF Changes

LEMMA CarriedSet ==
    ASSUME NEW s, Whole(s), NEW w, NEW width \in WidthSet, NEW t, t = WithWidth(s, w, width)
    PROVE  Changes(s, t)
<1>0. Changes(s, s)
  BY DEF Changes
<1>1. CASE width = Unset
  <2>1. t = s
    BY <1>1 DEF WithWidth
  <2> QED BY <1>0, <2>1
<1>2. CASE width # Unset
  <2>1. t = SetCarriedWidth(s, w, width)
    BY <1>2 DEF WithWidth
  <2>2. s \in StripSet /\ Arranged(s.columns)
    BY Tame
  <2>3. w \in Tiled(s) <=> OnStrip(s, w)
    BY <2>2, TiledIs
  <2>4. CASE ~OnStrip(s, w)
    <3>1. t = s
      BY <2>1, <2>4 DEF SetCarriedWidth
    <3> QED BY <1>0, <3>1
  <2>5. CASE OnStrip(s, w) /\ width = FullWidth
    <3>1. t = EnterFullWidth(s, w)
      BY <2>1, <2>5 DEF SetCarriedWidth
    <3> QED BY <2>3, <2>5, <3>1, Entered
  <2>6. CASE OnStrip(s, w) /\ width # FullWidth
    <3>1. t = Rewidthed(s, ColumnOf(s, w), width)
      BY <2>1, <2>6 DEF SetCarriedWidth, Rewidthed
    <3>2. ColumnOf(s, w) \in DOMAIN s.columns
      BY <2>2, <2>6, WhereIs
    <3> QED BY <3>1, <3>2, WidthGiven
  <2> QED BY <2>4, <2>5, <2>6
<1> QED BY <1>1, <1>2

-----------------------------------------------------------------------------
(* Windows coming and going.                                               *)

LEMMA InsertsAt ==
    ASSUME NEW s \in StripSet, Arranged(s.columns),
           NEW at, at = IF Located(s) THEN ColumnOf(s, s.selected) + 1 ELSE IF s.columns = <<>> THEN 1 ELSE 2
    PROVE  at \in 1..(Len(s.columns) + 1)
<1>1. s.columns \in Seq(ColumnSet)
  BY DEF Arranged
<1>2. CASE Located(s)
  <2>1. ColumnOf(s, s.selected) \in DOMAIN s.columns
    BY <1>2, WhereIs DEF Located
  <2> QED BY <1>1, <1>2, <2>1
<1>3. CASE ~Located(s) /\ s.columns = <<>>
  BY <1>1, <1>3
<1>4. CASE ~Located(s) /\ s.columns # <<>>
  <2>1. Len(s.columns) \in Nat \ {0}
    BY <1>1, <1>4
  <2> QED BY <1>4, <2>1
<1> QED BY <1>2, <1>3, <1>4

LEMMA Inserted ==
    ASSUME NEW s, Whole(s), NEW w \in Windows, w \notin Tiled(s), NEW nv \in BOOLEAN, NEW t, t = Insert(s, w, nv)
    PROVE  Good(t) /\ Tiled(t) = Tiled(s) \cup {w} /\ t.selected = w /\ Lengths(t)
<1>1. s \in StripSet /\ Arranged(s.columns)
  BY Tame
<1>2. PICK at : at = IF Located(s) THEN ColumnOf(s, s.selected) + 1 ELSE IF s.columns = <<>> THEN 1 ELSE 2
  OBVIOUS
<1>3. at \in 1..(Len(s.columns) + 1)
  BY <1>1, <1>2, InsertsAt
<1>4. PICK u : u = Put(s, at, w)
  OBVIOUS
<1>5. /\ u \in StripSet /\ SameRest(s, u) /\ Arranged(u.columns)
      /\ Tiled(u) = Tiled(s) \cup {w} /\ Soles(u) = Soles(s) \cup {w}
  BY <1>1, <1>3, <1>4, LonePut
<1>6. PICK v : v = Choosing(u, w)
  OBVIOUS
<1>7. w \in OptWindow
  BY DEF OptWindow
<1>8. /\ v \in StripSet /\ Tiled(v) = Tiled(u) /\ Soles(v) = Soles(u) /\ v.selected = w
      /\ v.columns = u.columns /\ v.fullWidth = u.fullWidth
      /\ v.widthOrigins = u.widthOrigins /\ v.foldOrigins = u.foldOrigins
  BY <1>5, <1>6, <1>7, ChosenIs
<1>9. Whole(v)
  BY <1>5, <1>8 DEF Whole, SameRest, Fits, FullOnly
<1>10. t = Show(v, nv)
  BY <1>2, <1>4, <1>6 DEF Insert, Put, Choosing
<1>11. Shown(v, t, nv)
  BY <1>8, <1>10, ShowShows
<1>12. Good(t) /\ Tiled(t) = Tiled(v)
  BY <1>9, <1>11, ShownGood
<1> QED BY <1>5, <1>8, <1>11, <1>12 DEF Shown, Kin

LEMMA ForgottenIs ==
    ASSUME NEW w, NEW origins \in Origins, NEW new, new = Forgotten(origins, w)
    PROVE  /\ new \in Origins
           /\ \A v \in Windows : new[v] # NoOrigin => v # w /\ origins[v].anchor # w /\ new[v] = origins[v]
<1>1. new = [v \in Windows |-> IF v = w \/ origins[v].anchor = w THEN NoOrigin ELSE origins[v]]
  BY DEF Forgotten
<1>2. new \in Origins
  BY <1>1, NoOriginIs DEF Origins
<1> QED BY <1>1, <1>2

LEMMA SuccessorIs ==
    ASSUME NEW s, s \in StripSet, Arranged(s.columns), NEW w, w \in Tiled(s), NEW next, next = Successor(s, w)
    PROVE  next \in Tiled(TakeOut(s, w)) \/ (Tiled(TakeOut(s, w)) = {} /\ next = NoWindow)
<1>1. PICK out : out = TakeOut(s, w)
  OBVIOUS
<1>2. /\ Arranged(out.columns)
      /\ Len(out.columns) = IF Stacked(s, w) THEN Len(s.columns) ELSE Len(s.columns) - 1
  BY <1>1, TakenApart
<1>3. PICK c : c = ColumnOf(s, w)
  OBVIOUS
<1>4. PICK r : r = RowOf(s, w)
  OBVIOUS
<1>5. c \in DOMAIN s.columns /\ r \in Nat
  <2>1. OnStrip(s, w)
    BY TiledIs
  <2>2. ColumnOf(s, w) \in DOMAIN s.columns /\ RowOf(s, w) \in 1..Len(Stack(s, w)) /\ Len(Stack(s, w)) \in Nat \ {0}
    BY <2>1, WhereIs
  <2> QED BY <1>3, <1>4, <2>2
<1>6. /\ DOMAIN s.columns = 1..Len(s.columns) /\ Len(s.columns) \in Nat
      /\ DOMAIN out.columns = 1..Len(out.columns) /\ Len(out.columns) \in Nat
      /\ out.columns # <<>> => Len(out.columns) \in Nat \ {0}
  <2>1. out.columns \in Seq(ColumnSet) /\ s.columns \in Seq(ColumnSet)
    BY <1>2 DEF Arranged
  <2> QED BY <2>1
<1>7. ASSUME NEW d \in DOMAIN out.columns, NEW i \in 1..Len(out.columns[d].windows)
      PROVE  out.columns[d].windows[i] \in Tiled(out)
  <2>1. out.columns[d] \in Among(out.columns) /\ out.columns[d].windows \in Seq(Windows)
    BY <1>2, ColumnFacts
  <2>2. In(out.columns[d], out.columns[d].windows[i])
    BY <2>1 DEF In
  <2> QED BY <1>2, <2>1, <2>2, TiledIs
<1>8. CASE out.columns = <<>>
  <2>1. next = NoWindow
    BY <1>1, <1>8 DEF Successor
  <2> QED BY <1>1, <1>2, <1>8, <2>1, Bare
<1>9. CASE out.columns # <<>> /\ c <= Len(out.columns)
  <2>1. c \in DOMAIN out.columns
    BY <1>5, <1>6, <1>9
  <2>2. Len(out.columns[c].windows) \in Nat \ {0}
    BY <1>2, <2>1, ColumnFacts
  <2>3. Clamp(r, 1, Len(out.columns[c].windows)) \in 1..Len(out.columns[c].windows)
    BY <1>5, <2>2 DEF Clamp
  <2>4. next = out.columns[c].windows[Clamp(r, 1, Len(out.columns[c].windows))]
    BY <1>1, <1>3, <1>4, <1>9 DEF Successor
  <2> QED BY <1>1, <1>7, <2>1, <2>3, <2>4
<1>10. CASE out.columns # <<>> /\ ~(c <= Len(out.columns))
  <2>1. c - 1 \in DOMAIN out.columns
    BY <1>2, <1>5, <1>6, <1>10
  <2>2. Len(out.columns[c - 1].windows) \in Nat \ {0}
    BY <1>2, <2>1, ColumnFacts
  <2>3. next = Last(out.columns[c - 1].windows)
    BY <1>1, <1>3, <1>4, <1>10 DEF Successor
  <2>4. next = out.columns[c - 1].windows[Len(out.columns[c - 1].windows)]
    BY <2>3 DEF Last
  <2> QED BY <1>1, <1>7, <2>1, <2>2, <2>4
<1> QED BY <1>8, <1>9, <1>10

LEMMA AfterRemovalIs ==
    ASSUME NEW u \in StripSet, NEW t, t = AfterRemoval(u)
    PROVE  /\ t \in StripSet /\ Kin(u, t)
           /\ t.centre = u.centre /\ t.keptView = u.keptView /\ t.keptPlace = u.keptPlace /\ t.measured = u.measured
<1>1. CASE u.columns = <<>>
  <2>1. t = [u EXCEPT !.offset = 0]
    BY <1>1 DEF AfterRemoval
  <2> QED BY <2>1 DEF StripSet, Kin
<1>2. CASE u.columns # <<>>
  <2>1. PICK i : i = IF u.intent.kind = "align" THEN Keep ELSE u.intent
    OBVIOUS
  <2>2. i \in Intents
    BY <2>1, Typed DEF StripSet
  <2>3. t = [u EXCEPT !.intent = i]
    BY <1>2, <2>1 DEF AfterRemoval, StripSet
  <2> QED BY <2>2, <2>3 DEF StripSet, Kin
<1> QED BY <1>1, <1>2

Dropped(out, full, wo, fo, selected, centre) ==
    [out EXCEPT !.fullWidth = full, !.widthOrigins = wo, !.foldOrigins = fo, !.selected = selected, !.centre = centre]

LEMMA Removed ==
    ASSUME NEW s, Good(s), NEW w, NEW t, t = RemoveWindow(s, w)
    PROVE  /\ Good(t) /\ Tiled(t) = Tiled(s) \ {w}
           /\ Lengths(s) => Lengths(t)
<1>0. Whole(s) /\ HeldFor(s) /\ s \in StripSet /\ Arranged(s.columns)
  BY WholeIs, Tame
<1>1. CASE ~OnStrip(s, w)
  <2>1. t = s
    BY <1>1 DEF RemoveWindow
  <2>2. w \notin Tiled(s)
    BY <1>0, <1>1, TiledIs
  <2> QED BY <2>1, <2>2
<1>2. CASE OnStrip(s, w)
  <2>1. w \in Tiled(s)
    BY <1>0, <1>2, TiledIs
  <2>2. PICK out : out = TakeOut(s, w)
    OBVIOUS
  <2>3. /\ out \in StripSet /\ SameRest(s, out) /\ Arranged(out.columns)
        /\ Tiled(out) = Tiled(s) \ {w} /\ Soles(s) \ {w} \subseteq Soles(out)
    BY <1>0, <2>1, <2>2, TakenApart
  <2>4. PICK full : full = s.fullWidth \ {w}
    OBVIOUS
  <2>5. PICK wo : wo = Forgotten(s.widthOrigins, w)
    OBVIOUS
  <2>6. PICK fo : fo = Forgotten(s.foldOrigins, w)
    OBVIOUS
  <2>7. PICK next : next = IF s.selected = w THEN Successor(s, w) ELSE s.selected
    OBVIOUS
  <2>8. PICK centre : centre = IF s.centre = w THEN NoWindow ELSE s.centre
    OBVIOUS
  <2>9. /\ wo \in Origins /\ Fits(out, wo)
        /\ \A v \in Windows : wo[v] # NoOrigin => v # w /\ s.widthOrigins[v] # NoOrigin
    <3>1. s.widthOrigins \in Origins /\ Fits(s, s.widthOrigins)
      BY <1>0, Tame DEF Whole
    <3>2. /\ wo \in Origins
          /\ \A v \in Windows : wo[v] # NoOrigin =>
                v # w /\ s.widthOrigins[v].anchor # w /\ wo[v] = s.widthOrigins[v]
      BY <2>5, <3>1, ForgottenIs
    <3> QED BY <2>3, <3>1, <3>2 DEF Fits
  <2>10. fo \in Origins /\ Fits(out, fo)
    <3>1. s.foldOrigins \in Origins /\ Fits(s, s.foldOrigins)
      BY <1>0, Tame DEF Whole
    <3>2. /\ fo \in Origins
          /\ \A v \in Windows : fo[v] # NoOrigin =>
                v # w /\ s.foldOrigins[v].anchor # w /\ fo[v] = s.foldOrigins[v]
      BY <2>6, <3>1, ForgottenIs
    <3> QED BY <2>3, <3>1, <3>2 DEF Fits
  <2>11. next \in Tiled(out) \/ (Tiled(out) = {} /\ next = NoWindow)
    <3>1. CASE s.selected = w
      BY <1>0, <2>1, <2>2, <2>7, <3>1, SuccessorIs
    <3>2. CASE s.selected # w
      BY <1>0, <2>1, <2>3, <2>7, <3>2 DEF Whole
    <3> QED BY <3>1, <3>2
  <2>12. next \in OptWindow /\ centre \in OptWindow /\ full \in SUBSET Windows
    <3>1. s.centre \in OptWindow /\ s.fullWidth \subseteq Windows
      BY <1>0 DEF StripSet
    <3> QED BY <2>4, <2>8, <2>11, <3>1, Typed DEF Tiled, OptWindow
  <2>13. PICK u : u = Dropped(out, full, wo, fo, next, centre)
    OBVIOUS
  <2>14. /\ u \in StripSet /\ u.fullWidth = full /\ u.widthOrigins = wo /\ u.foldOrigins = fo
         /\ u.selected = next /\ u.centre = centre
    BY <2>3, <2>9, <2>10, <2>12, <2>13 DEF StripSet, Dropped
  <2>15. u.columns = out.columns /\ u.measured = out.measured
    BY <2>3, <2>13 DEF StripSet, Dropped
  <2>16. Tiled(u) = Tiled(out) /\ Soles(u) = Soles(out)
    <3>1. \A v : (OnStrip(u, v) <=> OnStrip(out, v)) /\ (Stacked(u, v) <=> Stacked(out, v))
      BY <2>15 DEF OnStrip, Stacked, Stack, ColumnOf
    <3> QED BY <3>1 DEF Tiled, Soles
  <2>17. Whole(u)
    <3>1. full \subseteq Soles(u)
      BY <1>0, <2>3, <2>4, <2>16, Tame
    <3>2. FullOnly(u)
      BY <1>0, <2>4, <2>9, <2>14 DEF FullOnly, Whole
    <3>3. Fits(u, wo) /\ Fits(u, fo)
      BY <2>9, <2>10, <2>16 DEF Fits
    <3> QED BY <2>3, <2>11, <2>14, <2>15, <2>16, <3>1, <3>2, <3>3 DEF Whole
  <2>18. PICK v : v = Unpin(u)
    OBVIOUS
  <2>19. /\ v \in StripSet /\ Kin(u, v) /\ v.centre = u.centre /\ v.keptView = NoView /\ v.keptPlace = NoPlace
         /\ v.measured = [u.measured EXCEPT !.share = NoShare]
    BY <2>14, <2>18, UnpinIs
  <2>20. t = AfterRemoval(v)
    <3>1. t = AfterRemoval(Unpin([out EXCEPT
                !.fullWidth = @ \ {w},
                !.widthOrigins = Forgotten(@, w), !.foldOrigins = Forgotten(@, w),
                !.selected = IF @ = w THEN Successor(s, w) ELSE @,
                !.centre = IF @ = w THEN NoWindow ELSE @]))
      BY <1>2, <2>2 DEF RemoveWindow
    <3>2. /\ out.fullWidth = s.fullWidth /\ out.widthOrigins = s.widthOrigins /\ out.foldOrigins = s.foldOrigins
          /\ out.selected = s.selected /\ out.centre = s.centre
      BY <2>3 DEF SameRest
    <3>3. [out EXCEPT
                !.fullWidth = @ \ {w},
                !.widthOrigins = Forgotten(@, w), !.foldOrigins = Forgotten(@, w),
                !.selected = IF @ = w THEN Successor(s, w) ELSE @,
                !.centre = IF @ = w THEN NoWindow ELSE @] = Dropped(out, full, wo, fo, next, centre)
      BY <2>4, <2>5, <2>6, <2>7, <2>8, <3>2 DEF Dropped
    <3> QED BY <2>13, <2>18, <3>1, <3>3
  <2>21. /\ t \in StripSet /\ Kin(v, t)
         /\ t.centre = v.centre /\ t.keptView = NoView /\ t.keptPlace = NoPlace /\ t.measured = v.measured
    BY <2>19, <2>20, AfterRemovalIs
  <2>22. Kin(u, t)
    BY <2>19, <2>21 DEF Kin
  <2>23. Whole(t) /\ Tiled(t) = Tiled(u)
    BY <2>17, <2>21, <2>22, KinWhole
  <2>24. HeldFor(t)
    <3>1. t.centre = centre /\ t.selected = next
      BY <2>14, <2>19, <2>21, <2>22 DEF Kin
    <3>2. centre \in {NoWindow, next}
      BY <1>0, <2>7, <2>8 DEF HeldFor
    <3> QED BY <2>21, <3>1, <3>2, Typed DEF HeldFor
  <2>25. Lengths(t)
    <3>1. u.measured \in Measures
      BY <2>14 DEF StripSet
    <3>2. t.measured.share = NoShare
      BY <2>19, <2>21, <3>1 DEF Measures
    <3> QED BY <2>21, <3>2, Typed DEF Lengths
  <2> QED BY <2>3, <2>16, <2>23, <2>24, <2>25, WholeIs
<1> QED BY <1>1, <1>2

-----------------------------------------------------------------------------
(* Windows changing places, and identity.                                  *)

(* Every window of the columns taken to another.                           *)
Mapped(f, ws) == [i \in DOMAIN ws |-> f[ws[i]]]
Relabelled(columns, f) == [c \in DOMAIN columns |-> [columns[c] EXCEPT !.windows = Mapped(f, columns[c].windows)]]

Apiece(f, S) == \A v, w \in S : f[v] = f[w] => v = w
Image(f, S) == {f[v] : v \in S}

LEMMA ListIs ==
    ASSUME NEW C, NEW n \in Nat, NEW list, DOMAIN list = 1..n, list = [i \in DOMAIN list |-> list[i]],
           \A i \in 1..n : list[i] \in C
    PROVE  list \in Seq(C) /\ Len(list) = n
<1>1. list \in [1..n -> C]
  OBVIOUS
<1> QED BY <1>1

LEMMA MappedIs ==
    ASSUME NEW f \in [Windows -> Windows], NEW ws \in Seq(Windows), NEW new, new = Mapped(f, ws)
    PROVE  /\ new \in Seq(Windows) /\ Len(new) = Len(ws) /\ DOMAIN new = DOMAIN ws
           /\ ws # <<>> => new # <<>>
           /\ \A i \in DOMAIN ws : new[i] = f[ws[i]]
<1>1. new = [i \in 1..Len(ws) |-> f[ws[i]]] /\ Len(ws) \in Nat
  BY DEF Mapped
<1>2. \A i \in 1..Len(ws) : f[ws[i]] \in Windows
  OBVIOUS
<1>3. new \in Seq(Windows) /\ Len(new) = Len(ws) /\ DOMAIN new = DOMAIN ws
  BY <1>1, <1>2
<1>4. ws # <<>> => new # <<>>
  BY <1>3
<1>5. \A i \in DOMAIN ws : new[i] = f[ws[i]]
  BY <1>1
<1> QED BY <1>3, <1>4, <1>5

LEMMA Relabels ==
    ASSUME NEW s \in StripSet, Arranged(s.columns), NEW f \in [Windows -> Windows], Apiece(f, Tiled(s)),
           NEW new, new = Relabelled(s.columns, f)
    PROVE  /\ Arranged(new) /\ DOMAIN new = DOMAIN s.columns /\ Len(new) = Len(s.columns)
           /\ \A c \in DOMAIN new :
                 /\ Len(new[c].windows) = Len(s.columns[c].windows) /\ new[c].width = s.columns[c].width
                 /\ \A w : In(new[c], w) <=> \E v \in Windows : In(s.columns[c], v) /\ f[v] = w
           /\ \A w : (\E k \in Among(new) : In(k, w)) <=> w \in Image(f, Tiled(s))
           /\ \A w : (\E k \in Among(new) : In(k, w) /\ Len(k.windows) = 1) <=> w \in Image(f, Soles(s))
<1>1. s.columns \in Seq(ColumnSet) /\ DOMAIN s.columns = 1..Len(s.columns) /\ Len(s.columns) \in Nat
  BY DEF Arranged
<1>2. \A c \in DOMAIN s.columns :
          s.columns[c] \in ColumnSet /\ s.columns[c].windows \in Seq(Windows) /\ s.columns[c].windows # <<>>
  BY ColumnFacts
<1>3. DOMAIN new = DOMAIN s.columns
  BY DEF Relabelled
<1>4. ASSUME NEW c \in DOMAIN s.columns
      PROVE  /\ new[c] \in ColumnSet /\ new[c].width = s.columns[c].width
             /\ new[c].windows = Mapped(f, s.columns[c].windows)
  <2>1. new[c] = [s.columns[c] EXCEPT !.windows = Mapped(f, s.columns[c].windows)]
    BY DEF Relabelled
  <2>2. PICK ws : ws = Mapped(f, s.columns[c].windows)
    OBVIOUS
  <2>3. ws \in Seq(Windows) /\ ws # <<>>
    BY <1>2, <2>2, MappedIs
  <2>4. new[c] = [s.columns[c] EXCEPT !.windows = ws]
    BY <2>1, <2>2
  <2> QED BY <1>2, <2>2, <2>3, <2>4 DEF ColumnSet
<1>5. new = [c \in DOMAIN new |-> new[c]]
  BY DEF Relabelled
<1>6. new \in Seq(ColumnSet) /\ Len(new) = Len(s.columns)
  <2>1. DOMAIN new = 1..Len(s.columns) /\ \A c \in 1..Len(s.columns) : new[c] \in ColumnSet
    BY <1>1, <1>3, <1>4
  <2> QED BY <1>1, <1>5, <2>1, ListIs
<1>7. ASSUME NEW c \in DOMAIN s.columns
      PROVE  /\ Len(new[c].windows) = Len(s.columns[c].windows) /\ DOMAIN new[c].windows = DOMAIN s.columns[c].windows
             /\ \A i \in DOMAIN s.columns[c].windows : new[c].windows[i] = f[s.columns[c].windows[i]]
  BY <1>2, <1>4, MappedIs
<1>8. ASSUME NEW c \in DOMAIN s.columns, NEW i \in DOMAIN s.columns[c].windows
      PROVE  s.columns[c].windows[i] \in Tiled(s) /\ s.columns[c].windows[i] \in Windows
  <2>1. In(s.columns[c], s.columns[c].windows[i]) /\ s.columns[c] \in Among(s.columns)
    BY DEF In, Among
  <2> QED BY <2>1, TiledIs
<1>9. Once(new)
  <2> SUFFICES ASSUME NEW c \in DOMAIN new, NEW d \in DOMAIN new,
                      NEW i \in DOMAIN new[c].windows, NEW j \in DOMAIN new[d].windows,
                      new[c].windows[i] = new[d].windows[j]
               PROVE  c = d /\ i = j
    BY DEF Once
  <2>1. c \in DOMAIN s.columns /\ d \in DOMAIN s.columns
    BY <1>3
  <2>2. i \in DOMAIN s.columns[c].windows /\ j \in DOMAIN s.columns[d].windows
    BY <1>7, <2>1
  <2>3. f[s.columns[c].windows[i]] = f[s.columns[d].windows[j]]
    BY <1>7, <2>1, <2>2
  <2>4. s.columns[c].windows[i] = s.columns[d].windows[j]
    BY <1>8, <2>1, <2>2, <2>3 DEF Apiece
  <2> QED BY <2>1, <2>2, <2>4 DEF Arranged, Once
<1>10. ASSUME NEW c \in DOMAIN s.columns, NEW w
       PROVE  In(new[c], w) <=> \E v \in Windows : In(s.columns[c], v) /\ f[v] = w
  BY <1>7, <1>8 DEF In
<1>11. ASSUME NEW w PROVE (\E k \in Among(new) : In(k, w)) <=> w \in Image(f, Tiled(s))
  <2>1. ASSUME NEW c \in DOMAIN s.columns, In(new[c], w) PROVE w \in Image(f, Tiled(s))
    <3>1. PICK v \in Windows : In(s.columns[c], v) /\ f[v] = w
      BY <1>10, <2>1
    <3>2. v \in Tiled(s)
      BY <3>1, TiledIs DEF Among
    <3> QED BY <3>1, <3>2 DEF Image
  <2>2. ASSUME NEW v \in Tiled(s), w = f[v] PROVE \E c \in DOMAIN s.columns : In(new[c], w)
    <3>1. PICK c \in DOMAIN s.columns : In(s.columns[c], v)
      BY TiledIs DEF Among
    <3>2. v \in Windows
      BY DEF Tiled
    <3> QED BY <1>10, <2>2, <3>1, <3>2
  <2> QED BY <1>3, <2>1, <2>2 DEF Among, Image
<1>12. ASSUME NEW w PROVE (\E k \in Among(new) : In(k, w) /\ Len(k.windows) = 1) <=> w \in Image(f, Soles(s))
  <2>1. ASSUME NEW c \in DOMAIN s.columns, In(new[c], w), Len(new[c].windows) = 1 PROVE w \in Image(f, Soles(s))
    <3>1. PICK v \in Windows : In(s.columns[c], v) /\ f[v] = w
      BY <1>10, <2>1
    <3>2. Len(s.columns[c].windows) = 1 /\ s.columns[c] \in Among(s.columns)
      BY <1>7, <2>1 DEF Among
    <3>3. v \in Soles(s)
      BY <3>1, <3>2, TiledIs
    <3> QED BY <3>1, <3>3 DEF Image
  <2>2. ASSUME NEW v \in Soles(s), w = f[v] PROVE \E c \in DOMAIN s.columns : In(new[c], w) /\ Len(new[c].windows) = 1
    <3>1. PICK c \in DOMAIN s.columns : In(s.columns[c], v) /\ Len(s.columns[c].windows) = 1
      BY TiledIs DEF Among
    <3>2. v \in Windows
      BY DEF Tiled, Soles
    <3> QED BY <1>7, <1>10, <2>2, <3>1, <3>2
  <2> QED BY <1>3, <2>1, <2>2 DEF Among, Image
<1> QED BY <1>3, <1>4, <1>6, <1>7, <1>9, <1>10, <1>11, <1>12 DEF Arranged

Exchange(a, b) == [w \in Windows |-> IF w = a THEN b ELSE IF w = b THEN a ELSE w]

LEMMA ExchangeIs ==
    ASSUME NEW s, NEW a, NEW b, a \in Tiled(s), b \in Tiled(s), NEW f, f = Exchange(a, b)
    PROVE  /\ f \in [Windows -> Windows] /\ Apiece(f, Tiled(s)) /\ Image(f, Tiled(s)) = Tiled(s)
           /\ f[a] = b /\ f[b] = a /\ \A w \in Windows : w # a /\ w # b => f[w] = w
           /\ Soles(s) \ {a, b} \subseteq Image(f, Soles(s))
<1>1. a \in Windows /\ b \in Windows /\ Tiled(s) \subseteq Windows /\ Soles(s) \subseteq Tiled(s)
  BY DEF Tiled, Soles
<1>2. f \in [Windows -> Windows] /\ f[a] = b /\ f[b] = a /\ \A w \in Windows : w # a /\ w # b => f[w] = w
  BY <1>1 DEF Exchange
<1>3. Apiece(f, Tiled(s))
  BY <1>1, <1>2 DEF Apiece
<1>4. \A w \in Tiled(s) : f[w] \in Tiled(s) /\ f[f[w]] = w
  BY <1>1, <1>2
<1>5. Image(f, Tiled(s)) = Tiled(s)
  BY <1>4 DEF Image
<1>6. Soles(s) \ {a, b} \subseteq Image(f, Soles(s))
  BY <1>1, <1>2 DEF Image
<1> QED BY <1>2, <1>3, <1>5, <1>6

(* Two windows of the strip in each other's rows.                          *)
Traded(s, a, b) ==
    [s EXCEPT !.columns[ColumnOf(s, a)].windows[RowOf(s, a)] = b, !.columns[ColumnOf(s, b)].windows[RowOf(s, b)] = a]

LEMMA TradedIs ==
    ASSUME NEW s \in StripSet, Arranged(s.columns), NEW a, NEW b, a \in Tiled(s), b \in Tiled(s), NEW t, t = Traded(s, a, b)
    PROVE  t = [s EXCEPT !.columns = Relabelled(s.columns, Exchange(a, b))]
<1>1. PICK c : c = ColumnOf(s, a)
  OBVIOUS
<1>2. PICK d : d = ColumnOf(s, b)
  OBVIOUS
<1>3. PICK i : i = RowOf(s, a)
  OBVIOUS
<1>4. PICK j : j = RowOf(s, b)
  OBVIOUS
<1>5. PICK f : f = Exchange(a, b)
  OBVIOUS
<1>6. PICK columns : columns = s.columns
  OBVIOUS
<1>7. /\ c \in DOMAIN columns /\ columns[c].windows[i] = a /\ i \in DOMAIN columns[c].windows
      /\ \A e \in DOMAIN columns : \A r \in DOMAIN columns[e].windows : columns[e].windows[r] = a => e = c /\ r = i
  <2>1. OnStrip(s, a)
    BY TiledIs
  <2>2. /\ c \in DOMAIN s.columns /\ Stack(s, a) = s.columns[c].windows /\ i \in 1..Len(Stack(s, a)) /\ Stack(s, a)[i] = a
        /\ Stack(s, a) \in Seq(Windows)
    BY <1>1, <1>3, <2>1, WhereIs
  <2>3. Once(s.columns)
    BY DEF Arranged
  <2>4. c \in DOMAIN columns /\ columns[c].windows[i] = a /\ i \in DOMAIN columns[c].windows
    BY <1>6, <2>2
  <2> QED BY <1>6, <2>3, <2>4 DEF Once
<1>8. /\ d \in DOMAIN columns /\ columns[d].windows[j] = b /\ j \in DOMAIN columns[d].windows
      /\ \A e \in DOMAIN columns : \A r \in DOMAIN columns[e].windows : columns[e].windows[r] = b => e = d /\ r = j
  <2>1. OnStrip(s, b)
    BY TiledIs
  <2>2. /\ d \in DOMAIN s.columns /\ Stack(s, b) = s.columns[d].windows /\ j \in 1..Len(Stack(s, b)) /\ Stack(s, b)[j] = b
        /\ Stack(s, b) \in Seq(Windows)
    BY <1>2, <1>4, <2>1, WhereIs
  <2>3. Once(s.columns)
    BY DEF Arranged
  <2>4. d \in DOMAIN columns /\ columns[d].windows[j] = b /\ j \in DOMAIN columns[d].windows
    BY <1>6, <2>2
  <2> QED BY <1>6, <2>3, <2>4 DEF Once
<1>9. f[a] = b /\ f[b] = a /\ \A w \in Windows : w # a /\ w # b => f[w] = w
  BY <1>5, ExchangeIs
<1>10. /\ columns \in Seq(ColumnSet)
       /\ \A e \in DOMAIN columns : columns[e] \in ColumnSet /\ columns[e].windows \in Seq(Windows)
  BY <1>6, ColumnFacts DEF Arranged
<1>11. PICK once : once = [columns EXCEPT ![c].windows[i] = b]
  OBVIOUS
<1>12. PICK twice : twice = [once EXCEPT ![d].windows[j] = a]
  OBVIOUS
<1>13. \A e \in DOMAIN columns : columns[e] = [windows |-> columns[e].windows, width |-> columns[e].width]
  BY <1>10 DEF ColumnSet
<1>14. /\ DOMAIN once = DOMAIN columns
       /\ \A e \in DOMAIN columns :
             once[e] = [windows |-> IF e = c THEN [columns[e].windows EXCEPT ![i] = b] ELSE columns[e].windows,
                        width |-> columns[e].width]
  BY <1>11, <1>13
<1>15. /\ DOMAIN twice = DOMAIN columns
       /\ \A e \in DOMAIN columns :
             twice[e] = [windows |-> IF e = d THEN [once[e].windows EXCEPT ![j] = a] ELSE once[e].windows,
                         width |-> columns[e].width]
  BY <1>12, <1>14
<1>16. ASSUME NEW e \in DOMAIN columns
       PROVE  twice[e] = [windows |-> Mapped(f, columns[e].windows), width |-> columns[e].width]
  <2>1. PICK ws : ws = columns[e].windows
    OBVIOUS
  <2>2. PICK ws1 : ws1 = IF e = c THEN [ws EXCEPT ![i] = b] ELSE ws
    OBVIOUS
  <2>3. PICK ws2 : ws2 = IF e = d THEN [ws1 EXCEPT ![j] = a] ELSE ws1
    OBVIOUS
  <2>4. once[e].windows = ws1
    BY <1>14, <2>1, <2>2
  <2>5. twice[e] = [windows |-> ws2, width |-> columns[e].width]
    BY <1>15, <2>3, <2>4
  <2>6. ws \in Seq(Windows) /\ DOMAIN ws = 1..Len(ws) /\ Len(ws) \in Nat
    BY <1>10, <2>1
  <2>7. ASSUME NEW r \in DOMAIN ws PROVE ws2[r] = f[ws[r]]
    <3>1. ws[r] \in Windows
      BY <2>6
    <3>2. ws[r] = a <=> e = c /\ r = i
      BY <1>7, <2>1
    <3>3. ws[r] = b <=> e = d /\ r = j
      BY <1>8, <2>1
    <3>4. ws1[r] = IF e = c /\ r = i THEN b ELSE ws[r]
      BY <2>2, <2>6
    <3>5. ws2[r] = IF e = d /\ r = j THEN a ELSE ws1[r]
      BY <2>2, <2>3, <2>6
    <3> QED BY <1>9, <3>1, <3>2, <3>3, <3>4, <3>5
  <2>8. DOMAIN ws2 = DOMAIN ws /\ ws2 = [r \in DOMAIN ws |-> ws2[r]]
    <3>0. ws \in [DOMAIN ws -> Windows]
      BY <2>6
    <3>1. DOMAIN ws1 = DOMAIN ws /\ ws1 = [r \in DOMAIN ws |-> ws1[r]]
      <4>1. CASE e = c
        <5>1. ws1 = [ws EXCEPT ![i] = b]
          BY <2>2, <4>1
        <5> QED BY <3>0, <5>1
      <4>2. CASE e # c
        <5>1. ws1 = ws
          BY <2>2, <4>2
        <5> QED BY <3>0, <5>1
      <4> QED BY <4>1, <4>2
    <3>2. CASE e = d
      <4>1. ws2 = [ws1 EXCEPT ![j] = a]
        BY <2>3, <3>2
      <4> QED BY <3>1, <4>1
    <3>3. CASE e # d
      <4>1. ws2 = ws1
        BY <2>3, <3>3
      <4> QED BY <3>1, <4>1
    <3> QED BY <3>2, <3>3
  <2>9. ws2 = Mapped(f, ws)
    BY <2>7, <2>8 DEF Mapped
  <2> QED BY <2>1, <2>5, <2>9
<1>17. twice = Relabelled(columns, f)
  <2>1. \A e \in DOMAIN columns :
            [columns[e] EXCEPT !.windows = Mapped(f, columns[e].windows)]
                = [windows |-> Mapped(f, columns[e].windows), width |-> columns[e].width]
    BY <1>13
  <2>2. twice = [e \in DOMAIN columns |-> twice[e]]
    BY <1>12, <1>11
  <2> QED BY <1>16, <2>1, <2>2 DEF Relabelled
<1>18. t = [s EXCEPT !.columns = twice]
  <2>1. PICK s1 : s1 = [s EXCEPT !.columns = once]
    OBVIOUS
  <2>2. s1 = [s EXCEPT !.columns[c].windows[i] = b]
    BY <1>6, <1>11, <2>1
  <2>3. s1.columns = once
    BY <2>1 DEF StripSet
  <2>4. t = [s1 EXCEPT !.columns[d].windows[j] = a]
    BY <1>1, <1>2, <1>3, <1>4, <2>2 DEF Traded
  <2>5. t = [s1 EXCEPT !.columns = twice]
    BY <1>12, <2>3, <2>4
  <2> QED BY <2>1, <2>5
<1> QED BY <1>5, <1>6, <1>17, <1>18

LEMMA Trades ==
    ASSUME NEW s \in StripSet, Arranged(s.columns), NEW a, NEW b, a \in Tiled(s), b \in Tiled(s), NEW t, t = Traded(s, a, b)
    PROVE  /\ t \in StripSet /\ SameRest(s, t) /\ Arranged(t.columns) /\ Tiled(t) = Tiled(s)
           /\ Soles(s) \ {a, b} \subseteq Soles(t) /\ DOMAIN t.columns = DOMAIN s.columns
           /\ In(t.columns[ColumnOf(s, a)], b) /\ In(t.columns[ColumnOf(s, b)], a)
<1>1. PICK f : f = Exchange(a, b)
  OBVIOUS
<1>2. PICK new : new = Relabelled(s.columns, f)
  OBVIOUS
<1>3. /\ f \in [Windows -> Windows] /\ Apiece(f, Tiled(s)) /\ Image(f, Tiled(s)) = Tiled(s)
      /\ f[a] = b /\ f[b] = a
      /\ Soles(s) \ {a, b} \subseteq Image(f, Soles(s))
  BY <1>1, ExchangeIs
<1>4. /\ Arranged(new) /\ DOMAIN new = DOMAIN s.columns
      /\ \A c \in DOMAIN s.columns : \A w \in Windows : In(s.columns[c], w) => In(new[c], f[w])
      /\ \A w : (\E k \in Among(new) : In(k, w)) <=> w \in Image(f, Tiled(s))
      /\ \A w : (\E k \in Among(new) : In(k, w) /\ Len(k.windows) = 1) <=> w \in Image(f, Soles(s))
  <2>1. f \in [Windows -> Windows] /\ Apiece(f, Tiled(s))
    BY <1>3
  <2>2. s \in StripSet /\ Arranged(s.columns)
    OBVIOUS
  <2>3. Arranged(new) /\ DOMAIN new = DOMAIN s.columns
    BY ONLY <1>2, <2>1, <2>2, Relabels
  <2>4. ASSUME NEW c \in DOMAIN s.columns, NEW w \in Windows, In(s.columns[c], w) PROVE In(new[c], f[w])
    BY ONLY <1>2, <2>1, <2>2, <2>3, <2>4, Relabels
  <2>5. \A w : (\E k \in Among(new) : In(k, w)) <=> w \in Image(f, Tiled(s))
    BY ONLY <1>2, <2>1, <2>2, Relabels
  <2>6. \A w : (\E k \in Among(new) : In(k, w) /\ Len(k.windows) = 1) <=> w \in Image(f, Soles(s))
    BY ONLY <1>2, <2>1, <2>2, Relabels
  <2> QED BY ONLY <2>3, <2>4, <2>5, <2>6
<1>5. t = [s EXCEPT !.columns = new]
  BY <1>1, <1>2, TradedIs
<1>6. /\ t \in StripSet /\ SameRest(s, t) /\ t.columns = new /\ Arranged(t.columns)
      /\ \A w : w \in Tiled(t) <=> \E k \in Among(new) : In(k, w)
      /\ \A w : w \in Soles(t) <=> \E k \in Among(new) : In(k, w) /\ Len(k.windows) = 1
  <2>1. Arranged(new)
    BY <1>4
  <2>2. s \in StripSet
    OBVIOUS
  <2> QED BY ONLY <1>5, <2>1, <2>2, Recolumned
<1>7. Tiled(t) = Tiled(s)
  <2>1. \A w : w \in Tiled(t) <=> w \in Image(f, Tiled(s))
    BY ONLY <1>4, <1>6
  <2> QED BY ONLY <1>3, <2>1
<1>8. Soles(s) \ {a, b} \subseteq Soles(t)
  <2>1. \A w : w \in Soles(t) <=> w \in Image(f, Soles(s))
    BY ONLY <1>4, <1>6
  <2> QED BY ONLY <1>3, <2>1
<1>9. /\ ColumnOf(s, a) \in DOMAIN s.columns /\ In(s.columns[ColumnOf(s, a)], a) /\ a \in Windows
      /\ ColumnOf(s, b) \in DOMAIN s.columns /\ In(s.columns[ColumnOf(s, b)], b) /\ b \in Windows
  <2>1. OnStrip(s, a) /\ OnStrip(s, b)
    BY TiledIs
  <2> QED BY <2>1, WhereIs
<1>10. In(new[ColumnOf(s, a)], b) /\ In(new[ColumnOf(s, b)], a)
  BY <1>3, <1>4, <1>9
<1> QED BY <1>4, <1>6, <1>7, <1>8, <1>10

(* Two windows of one column in each other's rows.                         *)
LEMMA RowsTraded ==
    ASSUME NEW s, Whole(s), NEW a, NEW b, a \in Tiled(s), b \in Tiled(s), a # b, ColumnOf(s, a) = ColumnOf(s, b),
           NEW t, t = Traded(s, a, b)
    PROVE  Changes(s, t)
<1>1. s \in StripSet /\ Arranged(s.columns)
  BY Tame
<1>2. /\ t \in StripSet /\ SameRest(s, t) /\ Arranged(t.columns) /\ Tiled(t) = Tiled(s)
      /\ Soles(s) \ {a, b} \subseteq Soles(t)
  BY <1>1, Trades
<1>3. PICK k : k = s.columns[ColumnOf(s, a)]
  OBVIOUS
<1>4. k \in Among(s.columns) /\ In(k, a) /\ In(k, b)
  <2>1. OnStrip(s, a) /\ OnStrip(s, b)
    BY <1>1, TiledIs
  <2>2. s.columns[ColumnOf(s, a)] \in Among(s.columns) /\ In(s.columns[ColumnOf(s, a)], a)
    BY <1>1, <2>1, WhereIs
  <2>3. In(s.columns[ColumnOf(s, b)], b)
    BY <1>1, <2>1, WhereIs
  <2> QED BY <1>3, <2>2, <2>3
<1>5. ASSUME NEW l \in Among(s.columns), In(l, a) \/ In(l, b), Len(l.windows) = 1 PROVE FALSE
  <2>1. l = k
    BY <1>1, <1>4, <1>5, OneColumn DEF Among
  <2>2. DOMAIN l.windows = 1..Len(l.windows)
    BY <1>1, ColumnFacts DEF Among
  <2>3. DOMAIN l.windows = {1}
    BY <1>5, <2>2
  <2> QED BY <1>4, <2>1, <2>3 DEF In
<1>6. a \notin Soles(s) /\ b \notin Soles(s)
  BY <1>1, <1>5, TiledIs
<1>7. Soles(s) \subseteq Soles(t)
  BY <1>2, <1>6
<1>8. Whole(t)
  BY <1>2, <1>7, Rearranged
<1> QED BY <1>2, <1>8 DEF Changes, SameRest, HeldFor, Lengths

LEMMA Swapped ==
    ASSUME NEW s, Whole(s), NEW a, NEW b, a # b, NEW t, t = SwapWindows(s, a, b)
    PROVE  Changes(s, t)
<1>1. s \in StripSet /\ Arranged(s.columns)
  BY Tame
<1>2. (a \in Tiled(s) <=> OnStrip(s, a)) /\ (b \in Tiled(s) <=> OnStrip(s, b))
  BY <1>1, TiledIs
<1>3. CASE ~OnStrip(s, a) \/ ~OnStrip(s, b)
  <2>1. t = s
    BY <1>3 DEF SwapWindows
  <2> QED BY <2>1 DEF Changes
<1>4. CASE OnStrip(s, a) /\ OnStrip(s, b) /\ ColumnOf(s, a) = ColumnOf(s, b)
  <2>1. t = Traded(s, a, b)
    BY <1>4 DEF SwapWindows, Traded
  <2> QED BY <1>2, <1>4, <2>1, RowsTraded
<1>5. CASE OnStrip(s, a) /\ OnStrip(s, b) /\ ColumnOf(s, a) # ColumnOf(s, b)
  <2>1. PICK r : r = Traded(s, a, b)
    OBVIOUS
  <2>2. PICK c : c = ColumnOf(s, a)
    OBVIOUS
  <2>3. PICK d : d = ColumnOf(s, b)
    OBVIOUS
  <2>4. t = KeepFullWidthAlone(KeepFullWidthAlone(r, c), d)
    BY <1>5, <2>1, <2>2, <2>3 DEF SwapWindows, Traded
  <2>5. /\ r \in StripSet /\ SameRest(s, r) /\ Arranged(r.columns) /\ Tiled(r) = Tiled(s)
        /\ Soles(s) \ {a, b} \subseteq Soles(r) /\ DOMAIN r.columns = DOMAIN s.columns
        /\ In(r.columns[c], b) /\ In(r.columns[d], a)
    BY <1>1, <1>2, <1>5, <2>1, <2>2, <2>3, Trades
  <2>6. c \in DOMAIN r.columns /\ d \in DOMAIN r.columns
    <3>1. ColumnOf(s, a) \in DOMAIN s.columns /\ ColumnOf(s, b) \in DOMAIN s.columns
      BY <1>1, <1>5, WhereIs
    <3> QED BY <2>2, <2>3, <2>5, <3>1
  <2>7. Nearly(r, {a, b})
    <3>1. r.fullWidth \subseteq Soles(r) \cup {a, b}
      <4>1. r.fullWidth = s.fullWidth /\ s.fullWidth \subseteq Soles(s)
        BY <2>5, Tame DEF SameRest
      <4> QED BY <2>5, <4>1
    <3> QED BY <2>5, <3>1 DEF Whole, Nearly, SameRest, Fits, FullOnly
  <2>8. PICK u : u = KeepFullWidthAlone(r, c)
    OBVIOUS
  <2>9. /\ Nearly(u, {a, b} \ {w \in Windows : In(r.columns[c], w)})
        /\ u.columns = r.columns /\ u.selected = r.selected /\ u.ratio = r.ratio /\ Tiled(u) = Tiled(r)
        /\ HeldFor(r) => HeldFor(u)
        /\ Lengths(r) => Lengths(u)
    BY <2>6, <2>7, <2>8, KeptAlone
  <2>10. Nearly(u, {a})
    <3>1. b \in Windows
      BY <1>1, <1>5, WhereIs
    <3>2. {a, b} \ {w \in Windows : In(r.columns[c], w)} \subseteq {a}
      BY <2>5, <3>1
    <3> QED BY <2>9, <3>2 DEF Nearly
  <2>11. /\ Nearly(t, {a} \ {w \in Windows : In(u.columns[d], w)})
         /\ t.columns = u.columns /\ t.selected = u.selected /\ t.ratio = u.ratio /\ Tiled(t) = Tiled(u)
         /\ HeldFor(u) => HeldFor(t)
         /\ Lengths(u) => Lengths(t)
    <3>1. t = KeepFullWidthAlone(u, d) /\ d \in DOMAIN u.columns
      BY <2>4, <2>6, <2>8, <2>9
    <3> QED BY <2>10, <3>1, KeptAlone
  <2>12. Whole(t)
    <3>1. a \in Windows
      BY <1>1, <1>5, WhereIs
    <3>2. {a} \ {w \in Windows : In(u.columns[d], w)} = {}
      BY <2>5, <2>9, <3>1
    <3> QED BY <2>11, <3>2, NearlyIs
  <2>13. (HeldFor(s) => HeldFor(r)) /\ (Lengths(s) => Lengths(r)) /\ r.selected = s.selected /\ r.ratio = s.ratio
    BY <2>5 DEF SameRest, HeldFor, Lengths
  <2> QED BY <2>5, <2>9, <2>11, <2>12, <2>13 DEF Changes
<1> QED BY <1>3, <1>4, <1>5

(* One window's identity taken over by another.                            *)
Taking(from, to) == [w \in Windows |-> IF w = from THEN to ELSE w]
Newly(from, to, w) == IF w = from THEN to ELSE w

LEMMA OriginNamed ==
    ASSUME NEW from \in Windows, NEW to \in Windows, NEW o \in [anchor : OptWindow, below : BOOLEAN],
           NEW n, n = [o EXCEPT !.anchor = IF @ = from THEN to ELSE @]
    PROVE  /\ n \in [anchor : OptWindow, below : BOOLEAN] /\ n.anchor = Newly(from, to, o.anchor)
           /\ o = NoOrigin => n = NoOrigin
<1>1. PICK a : a = Newly(from, to, o.anchor)
  OBVIOUS
<1>2. a \in OptWindow
  BY <1>1 DEF Newly, OptWindow
<1>3. n = [anchor |-> a, below |-> o.below]
  BY <1>1 DEF Newly
<1>4. n \in [anchor : OptWindow, below : BOOLEAN] /\ n.anchor = a /\ n.below = o.below
  <2>1. o.below \in BOOLEAN
    OBVIOUS
  <2> QED BY <1>2, <1>3, <2>1
<1>5. ASSUME o = NoOrigin PROVE n = NoOrigin
  <2>1. o.anchor = NoWindow /\ o.below = FALSE
    BY <1>5 DEF NoOrigin
  <2>2. a = NoWindow
    BY <1>1, <2>1, StripAssumption DEF Newly
  <2> QED BY <1>3, <2>1, <2>2 DEF NoOrigin
<1> QED BY <1>1, <1>4, <1>5

LEMMA RenamedIs ==
    ASSUME NEW from \in Windows, NEW to \in Windows, from # to, NEW origins \in Origins, origins[to] = NoOrigin,
           NEW new, new = Renamed(origins, from, to)
    PROVE  /\ new \in Origins
           /\ \A v \in Windows : new[v] # NoOrigin =>
                 \E u \in Windows : /\ origins[u] # NoOrigin /\ v = Newly(from, to, u)
                                    /\ new[v].anchor = Newly(from, to, origins[u].anchor)
<1>1. PICK moved : moved = [origins EXCEPT ![to] = IF origins[from] = NoOrigin THEN @ ELSE origins[from], ![from] = NoOrigin]
  OBVIOUS
<1>2. /\ moved \in Origins /\ moved[from] = NoOrigin /\ moved[to] = origins[from]
      /\ \A v \in Windows : v # from /\ v # to => moved[v] = origins[v]
  BY <1>1, NoOriginIs DEF Origins
<1>3. new = [v \in Windows |-> [moved[v] EXCEPT !.anchor = IF @ = from THEN to ELSE @]]
  BY <1>1 DEF Renamed
<1>4. ASSUME NEW v \in Windows
      PROVE  /\ new[v] \in [anchor : OptWindow, below : BOOLEAN] /\ new[v].anchor = Newly(from, to, moved[v].anchor)
             /\ moved[v] = NoOrigin => new[v] = NoOrigin
  <2>1. moved[v] \in [anchor : OptWindow, below : BOOLEAN]
    BY <1>2 DEF Origins
  <2>2. new[v] = [moved[v] EXCEPT !.anchor = IF @ = from THEN to ELSE @]
    BY <1>3
  <2> QED BY <2>1, <2>2, OriginNamed
<1>5. new \in Origins
  BY <1>3, <1>4 DEF Origins
<1>6. ASSUME NEW v \in Windows, new[v] # NoOrigin
      PROVE  \E u \in Windows : /\ origins[u] # NoOrigin /\ v = Newly(from, to, u)
                                /\ new[v].anchor = Newly(from, to, origins[u].anchor)
  <2>1. moved[v] # NoOrigin /\ new[v].anchor = Newly(from, to, moved[v].anchor)
    BY <1>4, <1>6
  <2>2. CASE v = to
    <3>1. origins[from] # NoOrigin /\ v = Newly(from, to, from) /\ moved[v] = origins[from]
      BY <1>2, <2>1, <2>2 DEF Newly
    <3> QED BY <2>1, <3>1
  <2>3. CASE v # to
    <3>1. v # from /\ moved[v] = origins[v] /\ v = Newly(from, to, v)
      BY <1>2, <2>1, <2>3 DEF Newly
    <3> QED BY <2>1, <3>1
  <2> QED BY <2>2, <2>3
<1> QED BY <1>5, <1>6

Recast(s, columns, selected, centre, view, place, intent, full, wo, fo) ==
    [s EXCEPT !.columns = columns, !.selected = selected, !.centre = centre, !.keptView = view, !.keptPlace = place,
              !.intent = intent, !.fullWidth = full, !.widthOrigins = wo, !.foldOrigins = fo]

LEMMA RecastIs ==
    ASSUME NEW s \in StripSet, NEW columns \in Seq(ColumnSet), NEW selected \in OptWindow, NEW centre \in OptWindow,
           NEW view \in [window : OptWindow, side : Sides, view : Places],
           NEW place \in [window : OptWindow, place : Places], NEW intent \in Intents,
           NEW full \in SUBSET Windows, NEW wo \in Origins, NEW fo \in Origins,
           NEW t, t = Recast(s, columns, selected, centre, view, place, intent, full, wo, fo)
    PROVE  /\ t \in StripSet /\ t.columns = columns /\ t.selected = selected /\ t.centre = centre
           /\ t.keptView = view /\ t.keptPlace = place /\ t.intent = intent
           /\ t.fullWidth = full /\ t.widthOrigins = wo /\ t.foldOrigins = fo
           /\ t.ratio = s.ratio /\ t.offset = s.offset /\ t.measured = s.measured
<1>1. t = [columns |-> columns, selected |-> selected, ratio |-> s.ratio, offset |-> s.offset, intent |-> intent,
           keptView |-> view, keptPlace |-> place, centre |-> centre, measured |-> s.measured, fullWidth |-> full,
           widthOrigins |-> wo, foldOrigins |-> fo]
  BY DEF Recast, StripSet
<1>2. s.ratio \in Int /\ s.offset \in Int /\ s.measured \in Measures
  BY DEF StripSet
<1> QED BY <1>1, <1>2 DEF StripSet

LEMMA ReplacedIs ==
    ASSUME NEW s \in StripSet, Arranged(s.columns), NEW from \in Windows, NEW to \in Windows,
           NEW t, t = ReplaceWindow(s, from, to)
    PROVE  t = Recast(s, Relabelled(s.columns, Taking(from, to)), Newly(from, to, s.selected), Newly(from, to, s.centre),
                      [s.keptView EXCEPT !.window = Newly(from, to, @)],
                      [s.keptPlace EXCEPT !.window = Newly(from, to, @)],
                      [s.intent EXCEPT !.window = Newly(from, to, @)],
                      {Newly(from, to, w) : w \in s.fullWidth},
                      Renamed(s.widthOrigins, from, to), Renamed(s.foldOrigins, from, to))
<1>1. PICK f : f = Taking(from, to)
  OBVIOUS
<1>2. PICK columns : columns = [c \in DOMAIN s.columns |-> [s.columns[c] EXCEPT !.windows = ReplaceAll(@, from, to)]]
  OBVIOUS
<1>3. columns = Relabelled(s.columns, f)
  <2>1. ASSUME NEW c \in DOMAIN s.columns PROVE ReplaceAll(s.columns[c].windows, from, to) = Mapped(f, s.columns[c].windows)
    <3>1. PICK ws : ws = s.columns[c].windows
      OBVIOUS
    <3>2. ws \in Seq(Windows) /\ DOMAIN ws = 1..Len(ws)
      BY <3>1, ColumnFacts
    <3>3. \A i \in DOMAIN ws : f[ws[i]] = IF ws[i] = from THEN to ELSE ws[i]
      BY <1>1, <3>2 DEF Taking
    <3>4. [i \in 1..Len(ws) |-> IF ws[i] = from THEN to ELSE ws[i]] = [i \in DOMAIN ws |-> f[ws[i]]]
      BY <3>2, <3>3
    <3> QED BY <3>1, <3>4 DEF ReplaceAll, Mapped
  <2>2. ASSUME NEW c \in DOMAIN s.columns
        PROVE  [s.columns[c] EXCEPT !.windows = ReplaceAll(@, from, to)]
               = [s.columns[c] EXCEPT !.windows = Mapped(f, s.columns[c].windows)]
    BY <2>1
  <2> QED BY <1>2, <2>2 DEF Relabelled
<1>4. t = [s EXCEPT
        !.columns = columns,
        !.selected = Newly(from, to, @), !.centre = Newly(from, to, @), !.keptView.window = Newly(from, to, @),
        !.keptPlace.window = Newly(from, to, @), !.intent.window = Newly(from, to, @),
        !.fullWidth = {Newly(from, to, w) : w \in @},
        !.widthOrigins = Renamed(@, from, to), !.foldOrigins = Renamed(@, from, to)]
  BY <1>2 DEF ReplaceWindow, Newly
<1>5. t = Recast(s, columns, Newly(from, to, s.selected), Newly(from, to, s.centre),
                 [s.keptView EXCEPT !.window = Newly(from, to, @)],
                 [s.keptPlace EXCEPT !.window = Newly(from, to, @)],
                 [s.intent EXCEPT !.window = Newly(from, to, @)],
                 {Newly(from, to, w) : w \in s.fullWidth},
                 Renamed(s.widthOrigins, from, to), Renamed(s.foldOrigins, from, to))
  BY <1>4 DEF Recast, StripSet
<1> QED BY <1>1, <1>3, <1>5

LEMMA Replaced ==
    ASSUME NEW s, Good(s), NEW from \in Windows, NEW to \in Windows, from # to, to \notin Tiled(s),
           NEW t, t = ReplaceWindow(s, from, to)
    PROVE  /\ Good(t) /\ Tiled(t) = {Newly(from, to, w) : w \in Tiled(s)}
           /\ Lengths(s) => Lengths(t)
<1>0. Whole(s) /\ HeldFor(s) /\ s \in StripSet /\ Arranged(s.columns)
  BY WholeIs, Tame
<1>1. PICK f : f = Taking(from, to)
  OBVIOUS
<1>2. f \in [Windows -> Windows] /\ \A w \in Windows : f[w] = Newly(from, to, w)
  BY <1>1 DEF Taking, Newly
<1>3. Tiled(s) \subseteq Windows /\ Soles(s) \subseteq Tiled(s)
  BY <1>0, Tame
<1>4. Apiece(f, Tiled(s))
  BY <1>2, <1>3 DEF Apiece, Newly
<1>5. PICK new : new = Relabelled(s.columns, f)
  OBVIOUS
<1>6. /\ Arranged(new)
      /\ \A w : (\E k \in Among(new) : In(k, w)) <=> w \in Image(f, Tiled(s))
      /\ \A w : (\E k \in Among(new) : In(k, w) /\ Len(k.windows) = 1) <=> w \in Image(f, Soles(s))
  BY <1>0, <1>2, <1>4, <1>5, Relabels
<1>7. PICK wo : wo = Renamed(s.widthOrigins, from, to)
  OBVIOUS
<1>8. PICK fo : fo = Renamed(s.foldOrigins, from, to)
  OBVIOUS
<1>9. /\ s.widthOrigins \in Origins /\ Fits(s, s.widthOrigins) /\ s.widthOrigins[to] = NoOrigin
      /\ s.foldOrigins \in Origins /\ Fits(s, s.foldOrigins) /\ s.foldOrigins[to] = NoOrigin
  BY <1>0, Tame DEF Whole, Fits
<1>10. /\ wo \in Origins
       /\ \A v \in Windows : wo[v] # NoOrigin =>
             \E u \in Windows : /\ s.widthOrigins[u] # NoOrigin /\ v = Newly(from, to, u)
                                /\ wo[v].anchor = Newly(from, to, s.widthOrigins[u].anchor)
  BY <1>7, <1>9, RenamedIs
<1>11. /\ fo \in Origins
       /\ \A v \in Windows : fo[v] # NoOrigin =>
             \E u \in Windows : /\ s.foldOrigins[u] # NoOrigin /\ v = Newly(from, to, u)
                                /\ fo[v].anchor = Newly(from, to, s.foldOrigins[u].anchor)
  BY <1>8, <1>9, RenamedIs
<1>12. PICK full : full = {Newly(from, to, w) : w \in s.fullWidth}
  OBVIOUS
<1>13. ASSUME NEW w \in OptWindow PROVE Newly(from, to, w) \in OptWindow
  BY DEF Newly, OptWindow
<1>14. PICK view : view = [s.keptView EXCEPT !.window = Newly(from, to, @)]
  OBVIOUS
<1>15. view \in [window : OptWindow, side : Sides, view : Places] /\ view.window = Newly(from, to, s.keptView.window)
  <2>1. s.keptView \in [window : OptWindow, side : Sides, view : Places]
    BY <1>0 DEF StripSet
  <2> QED BY <1>13, <1>14, <2>1
<1>16. PICK place : place = [s.keptPlace EXCEPT !.window = Newly(from, to, @)]
  OBVIOUS
<1>17. /\ place \in [window : OptWindow, place : Places] /\ place.window = Newly(from, to, s.keptPlace.window)
       /\ place.place = s.keptPlace.place
  <2>1. s.keptPlace \in [window : OptWindow, place : Places]
    BY <1>0 DEF StripSet
  <2> QED BY <1>13, <1>16, <2>1
<1>18. PICK intent : intent = [s.intent EXCEPT !.window = Newly(from, to, @)]
  OBVIOUS
<1>19. intent \in Intents
  <2>1. s.intent \in Intents
    BY <1>0 DEF StripSet
  <2>2. s.intent.window \in OptWindow
    BY <2>1 DEF Intents
  <2>3. PICK n : n = Newly(from, to, s.intent.window)
    OBVIOUS
  <2>4. intent = [s.intent EXCEPT !.window = n]
    BY <1>18, <2>3
  <2> QED BY <1>13, <2>1, <2>2, <2>3, <2>4 DEF Intents
<1>20. PICK selected : selected = Newly(from, to, s.selected)
  OBVIOUS
<1>21. PICK centre : centre = Newly(from, to, s.centre)
  OBVIOUS
<1>22. selected \in OptWindow /\ centre \in OptWindow /\ full \in SUBSET Windows
  <2>1. s.selected \in OptWindow /\ s.centre \in OptWindow /\ s.fullWidth \subseteq Windows
    BY <1>0 DEF StripSet
  <2> QED BY <1>12, <1>13, <1>20, <1>21, <2>1 DEF Newly
<1>23. t = Recast(s, new, selected, centre, view, place, intent, full, wo, fo)
  BY <1>0, <1>1, <1>5, <1>7, <1>8, <1>12, <1>14, <1>16, <1>18, <1>20, <1>21, ReplacedIs
<1>24. /\ t \in StripSet /\ t.columns = new /\ t.selected = selected /\ t.centre = centre
       /\ t.keptView = view /\ t.keptPlace = place
       /\ t.fullWidth = full /\ t.widthOrigins = wo /\ t.foldOrigins = fo /\ t.measured = s.measured
  <2>1. new \in Seq(ColumnSet)
    BY <1>6 DEF Arranged
  <2> QED BY <1>0, <1>10, <1>11, <1>15, <1>17, <1>19, <1>22, <1>23, <2>1, RecastIs
<1>25. Arranged(t.columns)
  BY <1>6, <1>24
<1>26. Tiled(t) = Image(f, Tiled(s)) /\ Soles(t) = Image(f, Soles(s))
  <2>1. \A w : w \in Tiled(t) <=> \E k \in Among(new) : In(k, w)
    BY <1>24, <1>25, TiledIs
  <2>2. \A w : w \in Soles(t) <=> \E k \in Among(new) : In(k, w) /\ Len(k.windows) = 1
    BY <1>24, <1>25, TiledIs
  <2> QED BY <1>6, <2>1, <2>2
<1>27. ASSUME NEW u \in Tiled(s) PROVE Newly(from, to, u) \in Tiled(t)
  BY <1>2, <1>3, <1>26 DEF Image
<1>28. ASSUME NEW u \in Soles(s) PROVE Newly(from, to, u) \in Soles(t)
  BY <1>2, <1>3, <1>26 DEF Image
<1>29. \A u, v \in Tiled(s) : u # v => Newly(from, to, u) # Newly(from, to, v)
  BY DEF Newly
<1>30. t.selected \in Tiled(t) \/ (Tiled(t) = {} /\ t.selected = NoWindow)
  <2>1. CASE s.selected \in Tiled(s)
    BY <1>20, <1>24, <1>27, <2>1
  <2>2. CASE Tiled(s) = {} /\ s.selected = NoWindow
    BY <1>20, <1>24, <1>26, <2>2, StripAssumption DEF Newly, Image
  <2> QED BY <1>0, <2>1, <2>2 DEF Whole
<1>31. full \subseteq Soles(t)
  BY <1>0, <1>12, <1>28, Tame
<1>32. FullOnly(t)
  <2>1. \A v \in Windows : wo[v] # NoOrigin => v \in full
    BY <1>0, <1>10, <1>12 DEF Whole, FullOnly
  <2> QED BY <1>24, <2>1 DEF FullOnly
<1>33. Fits(t, wo)
  BY <1>9, <1>10, <1>27, <1>29 DEF Fits
<1>34. Fits(t, fo)
  BY <1>9, <1>11, <1>27, <1>29 DEF Fits
<1>35. Whole(t)
  BY <1>24, <1>25, <1>30, <1>31, <1>32, <1>33, <1>34 DEF Whole
<1>36. HeldFor(t)
  <2>1. Newly(from, to, NoWindow) = NoWindow
    BY StripAssumption DEF Newly
  <2> QED BY <1>0, <1>15, <1>17, <1>20, <1>21, <1>24, <2>1 DEF HeldFor
<1>37. Lengths(s) => Lengths(t)
  <2>1. Newly(from, to, s.keptPlace.window) # NoWindow => s.keptPlace.window # NoWindow
    BY StripAssumption DEF Newly
  <2> QED BY <1>17, <1>24, <2>1 DEF Lengths
<1>38. Tiled(t) = {Newly(from, to, w) : w \in Tiled(s)}
  BY <1>2, <1>3, <1>26 DEF Image
<1> QED BY <1>35, <1>36, <1>37, <1>38, WholeIs

-----------------------------------------------------------------------------
(* What each command on a strip leaves.                                    *)

(* A good strip of the same windows.                                       *)
Keeps(s, t) == Good(t) /\ Tiled(t) = Tiled(s) /\ (Lengths(s) => Lengths(t))

LEMMA Itself == ASSUME NEW s, Good(s) PROVE Keeps(s, s)
  BY DEF Keeps

LEMMA ThenShown ==
    ASSUME NEW s, NEW u, Whole(u), Tiled(u) = Tiled(s), NEW nv \in BOOLEAN, NEW t, Shown(u, t, nv)
    PROVE  Keeps(s, t)
<1>1. Good(t) /\ Tiled(t) = Tiled(u)
  BY ShownGood
<1>2. Lengths(t)
  BY DEF Shown
<1> QED BY <1>1, <1>2 DEF Keeps

LEMMA Selects ==
    ASSUME NEW s, Good(s), NEW w, NEW nv \in BOOLEAN, NEW t, t = Select(s, w, nv)
    PROVE  Keeps(s, t)
<1>1. Whole(s) /\ Arranged(s.columns)
  BY WholeIs, Tame
<1>2. CASE t = s
  BY <1>2, Itself
<1>3. CASE t # s
  <2>1. OnStrip(s, w) /\ t = Show(Choosing(s, w), nv)
    BY <1>3 DEF Select, Choosing
  <2>2. w \in Tiled(s)
    BY <1>1, <2>1, TiledIs
  <2>3. PICK u : u = Choosing(s, w)
    OBVIOUS
  <2>4. Whole(u) /\ Tiled(u) = Tiled(s)
    BY <1>1, <2>2, <2>3, Chosen
  <2>5. Shown(u, t, nv)
    <3>1. u \in StripSet /\ t = Show(u, nv)
      BY <2>1, <2>3, <2>4, Tame
    <3> QED BY <3>1, ShowShows
  <2> QED BY <2>4, <2>5, ThenShown
<1> QED BY <1>2, <1>3

LEMMA ClampIn == ASSUME NEW x \in Int, NEW n \in Nat \ {0} PROVE Clamp(x, 1, n) \in 1..n
  BY DEF Clamp

LEMMA FirstIs == ASSUME NEW s, Whole(s) PROVE SelectedOrFirst(s) = s.selected
<1>1. Arranged(s.columns)
  BY Tame
<1>2. s.selected = NoWindow => s.columns = <<>>
  <2>1. NoWindow \notin Tiled(s)
    BY <1>1, TiledIs
  <2> QED BY <1>1, <2>1, Bare DEF Whole
<1> QED BY <1>2 DEF SelectedOrFirst

LEMMA Rowed ==
    ASSUME NEW s, Arranged(s.columns), NEW c \in DOMAIN s.columns, NEW r \in DOMAIN s.columns[c].windows
    PROVE  s.columns[c].windows[r] \in Tiled(s)
<1>1. s.columns[c] \in Among(s.columns)
  BY ColumnFacts
<1>2. In(s.columns[c], s.columns[c].windows[r])
  BY DEF In
<1> QED BY <1>1, <1>2, TiledIs

LEMMA TargetsAre ==
    ASSUME NEW s, Whole(s), NEW step, NEW w \in FocusTargets(s, step)
    PROVE  w \in Tiled(s)
<1>1. Arranged(s.columns) /\ Located(s) /\ OnStrip(s, s.selected)
  BY Tame DEF FocusTargets, Located
<1>2. /\ ColumnOf(s, s.selected) \in DOMAIN s.columns /\ Stack(s, s.selected) = s.columns[ColumnOf(s, s.selected)].windows
      /\ RowOf(s, s.selected) \in 1..Len(Stack(s, s.selected)) /\ Len(Stack(s, s.selected)) \in Nat \ {0}
  BY <1>1, WhereIs
<1>3. CASE Along(step)
  <2>1. PICK c \in ColumnToward(s, step) : w = Beside(s, c)
    BY <1>1, <1>3 DEF FocusTargets
  <2>2. c \in DOMAIN s.columns
    BY <2>1 DEF ColumnToward
  <2>3. Len(s.columns[c].windows) \in Nat \ {0} /\ DOMAIN s.columns[c].windows = 1..Len(s.columns[c].windows)
    BY <1>1, <2>2, ColumnFacts
  <2>4. Clamp(RowOf(s, s.selected), 1, Len(s.columns[c].windows)) \in DOMAIN s.columns[c].windows
    <3>1. RowOf(s, s.selected) \in Int
      BY <1>2
    <3> QED BY <2>3, <3>1, ClampIn
  <2> QED BY <1>1, <2>1, <2>2, <2>4, Rowed DEF Beside
<1>4. CASE ~Along(step)
  <2>1. PICK r \in RowToward(s, step) : w = Stack(s, s.selected)[r]
    BY <1>1, <1>4 DEF FocusTargets
  <2>2. r \in DOMAIN Stack(s, s.selected)
    BY <2>1 DEF RowToward
  <2> QED BY <1>1, <1>2, <2>1, <2>2, Rowed
<1> QED BY <1>3, <1>4

LEMMA KeepsBoth ==
    ASSUME NEW s, NEW t, NEW u, Keeps(s, t), Keeps(t, u)
    PROVE  Keeps(s, u)
  BY DEF Keeps

LEMMA FocusMoves ==
    ASSUME NEW s, Good(s), NEW step, NEW nv \in BOOLEAN, NEW t, t = MoveFocus(s, step, nv)
    PROVE  Keeps(s, t)
<1>1. Whole(s) /\ s \in StripSet
  BY WholeIs, Tame
<1>2. CASE FocusTargets(s, step) = {}
  <2>1. PICK u : u = Align(s)
    OBVIOUS
  <2>2. Keeps(s, u)
    <3>1. Shown(s, u, nv)
      BY <1>1, <2>1, AlignShows
    <3> QED BY <1>1, <3>1, ThenShown
  <2>3. t = Select(u, SelectedOrFirst(s), nv)
    BY <1>2, <2>1 DEF MoveFocus
  <2>4. Keeps(u, t)
    BY <2>2, <2>3, Selects DEF Keeps
  <2> QED BY <2>2, <2>4, KeepsBoth
<1>3. CASE FocusTargets(s, step) # {}
  <2>1. PICK w : w = CHOOSE v \in FocusTargets(s, step) : TRUE
    OBVIOUS
  <2>2. w \in FocusTargets(s, step)
    BY <1>3, <2>1
  <2>3. w \in Tiled(s)
    BY <1>1, <2>2, TargetsAre
  <2>4. PICK u : u = Choosing(s, w)
    OBVIOUS
  <2>5. Whole(u) /\ Tiled(u) = Tiled(s) /\ u \in StripSet
    BY <1>1, <2>3, <2>4, Chosen, Tame
  <2>6. PICK way : way = IF step \in {"left", "first"} THEN "fromRight"
                         ELSE IF step \in {"right", "last"} THEN "fromLeft" ELSE "either"
    OBVIOUS
  <2>7. way \in {"either", "fromLeft", "fromRight"}
    BY <2>6
  <2>8. PICK v : v = IF nv THEN Reveal(u, way) ELSE Align(u)
    OBVIOUS
  <2>9. Shown(u, v, nv)
    <3>1. CASE nv
      <4>1. v = Reveal(u, way)
        BY <2>8, <3>1
      <4> QED BY <2>5, <2>7, <4>1, RevealShows
    <3>2. CASE ~nv
      <4>1. v = Align(u)
        BY <2>8, <3>2
      <4> QED BY <2>5, <4>1, AlignShows
    <3> QED BY <3>1, <3>2
  <2>10. Keeps(s, v)
    BY <2>5, <2>9, ThenShown
  <2>11. t = Select(v, w, nv)
    BY <1>3, <2>1, <2>4, <2>6, <2>8 DEF MoveFocus, Choosing
  <2>12. Keeps(v, t)
    BY <2>10, <2>11, Selects DEF Keeps
  <2> QED BY <2>10, <2>12, KeepsBoth
<1> QED BY <1>2, <1>3

(* The windows of a column in another order.                               *)
LEMMA Reordered ==
    ASSUME NEW s, Whole(s), NEW c \in DOMAIN s.columns, NEW rows \in Seq(Windows), Single(rows),
           Len(rows) = Len(s.columns[c].windows), \A v : Lists(rows, v) <=> In(s.columns[c], v),
           NEW t, t = Rerowed(s, c, rows)
    PROVE  Changes(s, t)
<1>1. s \in StripSet /\ Arranged(s.columns)
  BY Tame
<1>2. /\ s.columns[c].windows \in Seq(Windows) /\ Len(s.columns[c].windows) \in Nat \ {0}
      /\ s.columns[c] \in Among(s.columns)
  BY <1>1, ColumnFacts
<1>3. rows # <<>>
  BY <1>2
<1>4. \A v : Lists(rows, v) /\ v \in Tiled(s) => In(s.columns[c], v)
  OBVIOUS
<1>5. /\ t \in StripSet /\ SameRest(s, t) /\ Arranged(t.columns)
      /\ \A v : v \in Tiled(t) <=> In(t.columns[c], v) \/ (v \in Tiled(s) /\ ~In(s.columns[c], v))
      /\ \A v : v \in Soles(t) <=> (Len(rows) = 1 /\ In(t.columns[c], v)) \/ (v \in Soles(s) /\ ~In(s.columns[c], v))
      /\ \A v : In(t.columns[c], v) <=> Lists(rows, v)
  BY <1>1, <1>3, <1>4, RowsGiven
<1>6. \A v : In(s.columns[c], v) => v \in Tiled(s)
  BY <1>1, <1>2, TiledIs
<1>7. Tiled(t) = Tiled(s)
  BY <1>5, <1>6
<1>8. ASSUME NEW v \in Soles(s) PROVE v \in Soles(t)
  <2>1. PICK k \in Among(s.columns) : In(k, v) /\ Len(k.windows) = 1
    BY <1>1, TiledIs
  <2>2. In(s.columns[c], v) => k = s.columns[c]
    BY <1>1, <2>1, OneColumn DEF Among
  <2> QED BY <1>5, <2>1, <2>2
<1>9. Whole(t)
  BY <1>5, <1>7, <1>8, Rearranged
<1> QED BY <1>5, <1>7, <1>9 DEF Changes, SameRest, HeldFor, Lengths

LEMMA RowsExchanged ==
    ASSUME NEW ws \in Seq(Windows), Single(ws), NEW i \in 1..Len(ws), NEW r \in 1..Len(ws),
           NEW rows, rows = [ws EXCEPT ![i] = ws[r], ![r] = ws[i]]
    PROVE  /\ rows \in Seq(Windows) /\ Len(rows) = Len(ws) /\ Single(rows)
           /\ \A v : Lists(rows, v) <=> Lists(ws, v)
<1>1. rows \in Seq(Windows) /\ Len(rows) = Len(ws) /\ DOMAIN rows = 1..Len(ws) /\ DOMAIN ws = 1..Len(ws)
  OBVIOUS
<1>2. \A j \in 1..Len(ws) : rows[j] = IF j = r THEN ws[i] ELSE IF j = i THEN ws[r] ELSE ws[j]
  OBVIOUS
<1>3. Single(rows)
  BY <1>1, <1>2 DEF Single
<1>4. \A v : Lists(rows, v) <=> Lists(ws, v)
  BY <1>1, <1>2 DEF Lists
<1> QED BY <1>1, <1>3, <1>4

Refitted(s, columns) == [s EXCEPT !.columns = columns]

(* The columns in another order.                                           *)
LEMMA Resorted ==
    ASSUME NEW s, Whole(s), NEW new, Arranged(new), Among(new) = Among(s.columns), NEW t, t = Refitted(s, new)
    PROVE  Changes(s, t)
<1>1. s \in StripSet /\ Arranged(s.columns)
  BY Tame
<1>2. /\ t \in StripSet /\ SameRest(s, t) /\ t.columns = new /\ Arranged(t.columns)
      /\ \A w : w \in Tiled(t) <=> \E k \in Among(new) : In(k, w)
      /\ \A w : w \in Soles(t) <=> \E k \in Among(new) : In(k, w) /\ Len(k.windows) = 1
  <2>1. t = [s EXCEPT !.columns = new]
    BY DEF Refitted
  <2> QED BY <1>1, <2>1, Recolumned
<1>3. \A w : (w \in Tiled(t) <=> w \in Tiled(s)) /\ (w \in Soles(t) <=> w \in Soles(s))
  BY <1>1, <1>2, TiledIs
<1>4. Tiled(t) = Tiled(s) /\ Soles(t) = Soles(s)
  BY <1>3
<1>5. Whole(t)
  BY <1>2, <1>4, Rearranged
<1> QED BY <1>2, <1>4, <1>5 DEF Changes, SameRest, HeldFor, Lengths

LEMMA ColumnsExchanged ==
    ASSUME NEW s, Whole(s), NEW c \in DOMAIN s.columns, NEW d \in DOMAIN s.columns, NEW t, t = SwapColumns(s, c, d)
    PROVE  Changes(s, t)
<1>1. s \in StripSet /\ Arranged(s.columns)
  BY Tame
<1>2. PICK old : old = s.columns
  OBVIOUS
<1>3. PICK new : new = [old EXCEPT ![c] = old[d], ![d] = old[c]]
  OBVIOUS
<1>4. old \in Seq(ColumnSet) /\ Once(old) /\ c \in DOMAIN old /\ d \in DOMAIN old
  BY <1>1, <1>2 DEF Arranged
<1>5. /\ new \in Seq(ColumnSet) /\ DOMAIN new = DOMAIN old
      /\ \A e \in DOMAIN old : new[e] = IF e = d THEN old[c] ELSE IF e = c THEN old[d] ELSE old[e]
  BY <1>3, <1>4
<1> DEFINE From(e) == IF e = d THEN c ELSE IF e = c THEN d ELSE e
<1>6. \A e \in DOMAIN new : From(e) \in DOMAIN old /\ new[e] = old[From(e)] /\ From(From(e)) = e
  BY <1>4, <1>5
<1> HIDE DEF From
<1>7. Among(new) = Among(old)
  BY <1>5, <1>6 DEF Among
<1>8. Once(new)
  <2> SUFFICES ASSUME NEW e \in DOMAIN new, NEW f \in DOMAIN new,
                      NEW i \in DOMAIN new[e].windows, NEW j \in DOMAIN new[f].windows,
                      new[e].windows[i] = new[f].windows[j]
               PROVE  e = f /\ i = j
    BY DEF Once
  <2>1. From(e) = From(f) /\ i = j
    BY <1>4, <1>6 DEF Once
  <2> QED BY <1>6, <2>1
<1>9. t = Refitted(s, new)
  BY <1>2, <1>3 DEF SwapColumns, Refitted
<1> QED BY <1>2, <1>5, <1>7, <1>8, <1>9, Resorted DEF Arranged

LEMMA ColumnMoved ==
    ASSUME NEW s, Whole(s), NEW c \in DOMAIN s.columns, NEW end \in 1..Len(s.columns),
           NEW t, t = [s EXCEPT !.columns = InsertAt(RemoveAt(@, c), end, s.columns[c])]
    PROVE  Changes(s, t)
<1>1. s \in StripSet /\ Arranged(s.columns)
  BY Tame
<1>2. PICK k : k = s.columns[c]
  OBVIOUS
<1>3. k \in ColumnSet /\ Single(k.windows) /\ k \in Among(s.columns)
  BY <1>1, <1>2, ColumnFacts
<1>4. PICK rest : rest = RemoveAt(s.columns, c)
  OBVIOUS
<1>5. Arranged(rest) /\ Among(rest) = Among(s.columns) \ {k} /\ Len(rest) = Len(s.columns) - 1
  BY <1>1, <1>2, <1>4, ColumnRemoved
<1>6. Apart(k, rest)
  <2> SUFFICES ASSUME NEW l \in Among(rest), NEW w \in Windows, In(k, w), In(l, w) PROVE FALSE
    BY DEF Apart
  <2>1. l \in Among(s.columns) /\ l # k
    BY <1>5
  <2> QED BY <1>1, <1>3, <2>1, OneColumn DEF Among
<1>7. end \in 1..(Len(rest) + 1)
  <2>1. Len(s.columns) \in Nat
    BY <1>1 DEF Arranged
  <2> QED BY <1>5, <2>1
<1>8. PICK new : new = InsertAt(rest, end, k)
  OBVIOUS
<1>9. Arranged(new) /\ Among(new) = Among(rest) \cup {k}
  BY <1>3, <1>5, <1>6, <1>7, <1>8, ColumnInserted
<1>10. Among(new) = Among(s.columns)
  BY <1>3, <1>5, <1>9
<1>11. t = Refitted(s, new)
  BY <1>2, <1>4, <1>8 DEF Refitted
<1> QED BY ONLY Whole(s), <1>9, <1>10, <1>11, Resorted

LEMMA PullsOut ==
    ASSUME NEW s, Whole(s), NEW w, w \in Tiled(s), Stacked(s, w), NEW at \in 1..(Len(s.columns) + 1),
           NEW t, t = PullOut(s, w, at)
    PROVE  Changes(s, t)
<1>1. s \in StripSet /\ Arranged(s.columns)
  BY Tame
<1>2. /\ t \in StripSet /\ SameRest(s, t) /\ Arranged(t.columns)
      /\ Tiled(t) = Tiled(s) /\ Soles(s) \cup {w} \subseteq Soles(t)
  BY <1>1, PulledOut
<1>3. Whole(t)
  BY <1>2, Rearranged
<1> QED BY <1>2, <1>3 DEF Changes, SameRest, HeldFor, Lengths

LEMMA MovesOn ==
    ASSUME NEW s, Whole(s), Located(s), NEW step \in Steps, NEW t \in Moved(s, step)
    PROVE  Changes(s, t)
<1>1. s \in StripSet /\ Arranged(s.columns) /\ OnStrip(s, s.selected)
  BY Tame DEF Located
<1>2. PICK w : w = s.selected
  OBVIOUS
<1>3. PICK c : c = ColumnOf(s, w)
  OBVIOUS
<1>4. /\ c \in DOMAIN s.columns /\ Stack(s, w) = s.columns[c].windows
      /\ Stack(s, w) \in Seq(Windows) /\ Single(Stack(s, w))
      /\ RowOf(s, w) \in 1..Len(Stack(s, w)) /\ Stack(s, w)[RowOf(s, w)] = w
  BY <1>1, <1>2, <1>3, WhereIs
<1>5. w \in Tiled(s)
  BY <1>1, <1>2, TiledIs
<1>6. DOMAIN s.columns = 1..Len(s.columns) /\ Len(s.columns) \in Nat \ {0}
  <2>1. DOMAIN s.columns = 1..Len(s.columns) /\ Len(s.columns) \in Nat
    BY <1>1 DEF Arranged
  <2> QED BY <1>4, <2>1
<1>7. CASE ~Along(step)
  <2>1. PICK r \in RowToward(s, step) :
            t = [s EXCEPT !.columns[c].windows = [@ EXCEPT ![RowOf(s, w)] = Stack(s, w)[r], ![r] = w]]
    BY <1>2, <1>3, <1>7 DEF Moved
  <2>2. PICK ws : ws = Stack(s, w)
    OBVIOUS
  <2>3. PICK i : i = RowOf(s, w)
    OBVIOUS
  <2>4. r \in 1..Len(ws) /\ i \in 1..Len(ws) /\ ws \in Seq(Windows) /\ Single(ws) /\ ws = s.columns[c].windows /\ ws[i] = w
    <3>1. r \in DOMAIN Stack(s, w)
      BY <1>2, <2>1 DEF RowToward
    <3> QED BY <1>4, <2>2, <2>3, <3>1
  <2>5. PICK rows : rows = [ws EXCEPT ![i] = ws[r], ![r] = ws[i]]
    OBVIOUS
  <2>6. /\ rows \in Seq(Windows) /\ Len(rows) = Len(ws) /\ Single(rows)
        /\ \A v : Lists(rows, v) <=> Lists(ws, v)
    BY <2>4, <2>5, RowsExchanged
  <2>7. t = Rerowed(s, c, rows)
    <3>1. t = [s EXCEPT !.columns[c].windows = [@ EXCEPT ![i] = ws[r], ![r] = w]]
      BY <2>1, <2>2, <2>3
    <3>2. t = [s EXCEPT !.columns[c].windows = rows]
      BY <2>4, <2>5, <3>1
    <3> QED BY <3>2 DEF Rerowed
  <2>8. \A v : Lists(rows, v) <=> In(s.columns[c], v)
    BY <2>4, <2>6 DEF Lists, In
  <2> QED BY <1>4, <2>4, <2>6, <2>7, <2>8, Reordered
<1>8. CASE Along(step) /\ Stacked(s, w)
  <2>1. PICK at : at = CASE step = "left"  -> c
                              [] step = "right" -> c + 1
                              [] step = "first" -> 1
                              [] step = "last"  -> Len(s.columns) + 1
    OBVIOUS
  <2>2. t = PullOut(s, w, at)
    BY <1>2, <1>3, <1>8, <2>1 DEF Moved
  <2>3. at \in 1..(Len(s.columns) + 1)
    BY <1>4, <1>6, <1>8, <2>1 DEF Along
  <2> QED BY <1>5, <1>8, <2>2, <2>3, PullsOut
<1>9. CASE Along(step) /\ ~Stacked(s, w) /\ step \in {"left", "right"}
  <2>1. PICK d \in ColumnToward(s, step) : t = SwapColumns(s, c, d)
    BY <1>2, <1>3, <1>9 DEF Moved
  <2>2. d \in DOMAIN s.columns
    BY <2>1 DEF ColumnToward
  <2> QED BY <1>4, <2>1, <2>2, ColumnsExchanged
<1>10. CASE Along(step) /\ ~Stacked(s, w) /\ step \notin {"left", "right"}
  <2>1. PICK end : end = IF step \in {"left", "first"} THEN 1 ELSE Len(s.columns)
    OBVIOUS
  <2>2. t = [s EXCEPT !.columns = InsertAt(RemoveAt(@, c), end, s.columns[c])]
    BY <1>2, <1>3, <1>10, <2>1 DEF Moved
  <2>3. end \in 1..Len(s.columns)
    BY <1>6, <2>1
  <2> QED BY <1>4, <2>2, <2>3, ColumnMoved
<1> QED BY <1>7, <1>8, <1>9, <1>10

LEMMA ShowsAfter ==
    ASSUME NEW s, NEW u, Whole(u), Tiled(u) = Tiled(s), NEW nv \in BOOLEAN, NEW t, t = Show(u, nv)
    PROVE  Keeps(s, t)
<1>1. Shown(u, t, nv)
  BY Tame, ShowShows
<1> QED BY <1>1, ThenShown

LEMMA SelectionMoves ==
    ASSUME NEW s, Good(s), NEW step \in Steps, NEW nv \in BOOLEAN, NEW t, t = MoveSelection(s, step, nv)
    PROVE  Keeps(s, t)
<1>1. Whole(s)
  BY WholeIs
<1>2. CASE ~Located(s) \/ Moved(s, step) = {}
  BY <1>2, Itself DEF MoveSelection
<1>3. CASE Located(s) /\ Moved(s, step) # {}
  <2>1. PICK u : u = CHOOSE v \in Moved(s, step) : TRUE
    OBVIOUS
  <2>2. u \in Moved(s, step)
    BY <1>3, <2>1
  <2>3. Changes(s, u)
    BY <1>1, <1>3, <2>2, MovesOn
  <2>4. t = Show(u, nv)
    BY <1>3, <2>1 DEF MoveSelection
  <2> QED BY <2>3, <2>4, ShowsAfter DEF Changes
<1> QED BY <1>2, <1>3

-----------------------------------------------------------------------------
(* Folds.                                                                  *)

Refolded(s, origins) == [s EXCEPT !.foldOrigins = origins]

LEMMA Refolds ==
    ASSUME NEW s, Whole(s), NEW origins \in Origins, Fits(s, origins), NEW t, t = Refolded(s, origins)
    PROVE  /\ Changes(s, t) /\ t.columns = s.columns /\ t.foldOrigins = origins
<1>1. s \in StripSet
  BY Tame
<1>2. /\ t \in StripSet /\ t.foldOrigins = origins
      /\ t.columns = s.columns /\ t.selected = s.selected /\ t.ratio = s.ratio
      /\ t.centre = s.centre /\ t.keptView = s.keptView /\ t.keptPlace = s.keptPlace /\ t.measured = s.measured
      /\ t.fullWidth = s.fullWidth /\ t.widthOrigins = s.widthOrigins
  BY <1>1 DEF StripSet, Refolded
<1>3. \A v : (OnStrip(t, v) <=> OnStrip(s, v)) /\ (Stacked(t, v) <=> Stacked(s, v))
  BY <1>2 DEF OnStrip, Stacked, Stack, ColumnOf
<1>4. Tiled(t) = Tiled(s) /\ Soles(t) = Soles(s)
  BY <1>3 DEF Tiled, Soles
<1>5. Whole(t)
  BY <1>2, <1>4 DEF Whole, Fits, FullOnly
<1> QED BY <1>2, <1>4, <1>5 DEF Changes, HeldFor, Lengths

LEMMA RefoldedIs ==
    ASSUME NEW s, NEW w, NEW o
    PROVE  [s EXCEPT !.foldOrigins[w] = o] = Refolded(s, [s.foldOrigins EXCEPT ![w] = o])
  BY DEF Refolded

LEMMA FoldsOut ==
    ASSUME NEW s, Whole(s), NEW w, w \in Tiled(s), Stacked(s, w), NEW side \in {"left", "right"},
           NEW t, t = FoldOut(s, w, side)
    PROVE  Changes(s, t)
<1>1. s \in StripSet /\ Arranged(s.columns) /\ w \in Windows /\ s.foldOrigins \in Origins
  BY TiledIs, Tame
<1>2. PICK away : away = IF side = "left" THEN "right" ELSE "left"
  OBVIOUS
<1>3. away \in {"left", "right"}
  BY <1>2
<1>4. PICK u : u = SplitOut(s, w, away)
  OBVIOUS
<1>5. /\ u \in StripSet /\ SameRest(s, u) /\ Arranged(u.columns)
      /\ Tiled(u) = Tiled(s) /\ Soles(s) \cup {w} \subseteq Soles(u)
  BY <1>1, <1>3, <1>4, SplitsOut
<1>6. Whole(u)
  BY <1>5, Rearranged
<1>7. Changes(s, u)
  BY <1>5, <1>6 DEF Changes, SameRest, HeldFor, Lengths
<1>8. PICK o : o = OriginOf(s, w)
  OBVIOUS
<1>9. o \in [anchor : OptWindow, below : BOOLEAN] /\ o.anchor \in Tiled(s) /\ o.anchor # w
  BY <1>1, <1>8, OriginIs
<1>10. PICK origins : origins = [s.foldOrigins EXCEPT ![w] = o]
  OBVIOUS
<1>11. origins \in Origins
  BY <1>1, <1>9, <1>10 DEF Origins
<1>12. Fits(u, origins)
  <2>1. \A v \in Windows : origins[v] = IF v = w THEN o ELSE s.foldOrigins[v]
    BY <1>1, <1>10 DEF Origins
  <2> QED BY <1>5, <1>9, <2>1 DEF Whole, Fits
<1>13. t = Refolded(u, origins)
  <2>1. t = [u EXCEPT !.foldOrigins[w] = o]
    BY <1>2, <1>4, <1>8 DEF FoldOut
  <2>2. u.foldOrigins = s.foldOrigins
    BY <1>5 DEF SameRest
  <2> QED BY <1>10, <2>1, <2>2, RefoldedIs
<1>14. Changes(u, t)
  BY <1>6, <1>11, <1>12, <1>13, Refolds
<1> QED BY <1>7, <1>14 DEF Changes

LEMMA FoldsIn ==
    ASSUME NEW s, Whole(s), NEW w, w \in Tiled(s), w = s.selected, NEW target \in DOMAIN s.columns,
           target # ColumnOf(s, w), NEW t, t = FoldIn(s, w, target)
    PROVE  Changes(s, t)
<1>1. s \in StripSet /\ Arranged(s.columns) /\ w \in Windows /\ w # NoWindow /\ s.foldOrigins \in Origins
  BY TiledIs, Tame
<1>2. PICK origin : origin = s.foldOrigins[w]
  OBVIOUS
<1>3. origin.anchor # w
  <2>1. CASE origin = NoOrigin
    BY <1>1, <2>1 DEF NoOrigin
  <2>2. CASE origin # NoOrigin
    BY <1>1, <1>2, <2>2 DEF Whole, Fits
  <2> QED BY <2>1, <2>2
<1>4. PICK origins : origins = [s.foldOrigins EXCEPT ![w] = NoOrigin]
  OBVIOUS
<1>5. origins \in Origins
  BY <1>1, <1>4, NoOriginIs DEF Origins
<1>6. Fits(s, origins)
  <2>1. \A v \in Windows : origins[v] = IF v = w THEN NoOrigin ELSE s.foldOrigins[v]
    BY <1>1, <1>4 DEF Origins
  <2> QED BY <2>1 DEF Whole, Fits
<1>7. PICK spent : spent = Refolded(s, origins)
  OBVIOUS
<1>8. Changes(s, spent) /\ spent.columns = s.columns
  BY <1>5, <1>6, <1>7, Refolds
<1>9. [s EXCEPT !.foldOrigins[w] = NoOrigin] = spent
  BY <1>4, <1>7 DEF Refolded
<1>10. CASE OnStrip(s, origin.anchor) /\ ColumnOf(s, origin.anchor) = target
  <2>1. t = Restore(spent, w, origin)
    BY <1>2, <1>9, <1>10 DEF FoldIn
  <2>2. /\ Whole(t) /\ Tiled(t) = Tiled(spent) /\ t.selected = spent.selected /\ t.ratio = spent.ratio
        /\ HeldFor(spent) => HeldFor(t)
        /\ Lengths(spent) => Lengths(t)
    BY <1>3, <1>8, <2>1, Restored DEF Changes
  <2> QED BY <1>8, <2>2 DEF Changes
<1>11. CASE ~(OnStrip(s, origin.anchor) /\ ColumnOf(s, origin.anchor) = target)
  <2>1. t = MoveToColumnEnd(spent, w, target)
    BY <1>2, <1>9, <1>11 DEF FoldIn
  <2>2. ColumnOf(spent, w) = ColumnOf(s, w)
    BY <1>8 DEF ColumnOf
  <2>3. w \in Tiled(spent) /\ target \in DOMAIN spent.columns /\ Whole(spent) /\ target # ColumnOf(spent, w)
    BY <1>8, <2>2 DEF Changes
  <2>4. /\ Whole(t) /\ Tiled(t) = Tiled(spent) /\ t.selected = w /\ t.ratio = spent.ratio
        /\ HeldFor(t) /\ Lengths(t)
    BY <2>1, <2>3, MovedToEnd
  <2> QED BY <1>8, <2>4 DEF Changes
<1> QED BY <1>10, <1>11

LEMMA SelectingIs ==
    ASSUME NEW s, Whole(s), NEW w \in Tiled(s), NEW t, t = Selecting(s, w)
    PROVE  /\ Whole(t) /\ Tiled(t) = Tiled(s) /\ t.selected = w /\ t.ratio = s.ratio /\ t.columns = s.columns
           /\ t.centre = s.centre /\ t.keptView = NoView /\ t.keptPlace = s.keptPlace /\ t.measured = s.measured
<1>1. PICK u : u = Choosing(s, w)
  OBVIOUS
<1>2. /\ Whole(u) /\ Tiled(u) = Tiled(s) /\ u.selected = w /\ u.ratio = s.ratio
      /\ u.columns = s.columns /\ u.centre = s.centre /\ u.keptPlace = s.keptPlace /\ u.measured = s.measured
  BY <1>1, Chosen
<1>3. u \in StripSet
  BY <1>2, Tame
<1>4. t = [u EXCEPT !.keptView = NoView]
  BY <1>1 DEF Selecting, Choosing
<1>5. t \in StripSet /\ t.keptView = NoView
  BY <1>3, <1>4, Typed DEF StripSet
<1>6. Kin(u, t) /\ t.centre = u.centre /\ t.keptPlace = u.keptPlace /\ t.measured = u.measured
  BY <1>3, <1>4 DEF Kin, StripSet
<1>7. Whole(t) /\ Tiled(t) = Tiled(u)
  BY <1>2, <1>5, <1>6, KinWhole
<1> QED BY <1>2, <1>5, <1>6, <1>7 DEF Kin

LEMMA ViewsAre ==
    ASSUME NEW s \in StripSet, NEW w, NEW v \in ViewOf(s, w)
    PROVE  v \in Places
<1>1. s.measured.rel \in Int
  BY DEF StripSet, Measures
<1>2. Held(<<s.measured.rel, 1>>) \in Places
  BY <1>1 DEF Held, Places, Shares
<1> QED BY <1>2, Typed DEF ViewOf

LEMMA Keeping ==
    ASSUME NEW s, Good(s), NEW w \in Windows, s.selected = w, NEW side \in {"left", "right"},
           NEW views, views \subseteq Places, NEW t, t = Kept(s, w, side, views)
    PROVE  Keeps(s, t)
<1>1. CASE views = {}
  BY <1>1, Itself DEF Kept
<1>2. CASE views # {}
  <2>1. PICK v : v = CHOOSE u \in views : TRUE
    OBVIOUS
  <2>2. v \in Places
    BY <1>2, <2>1
  <2>3. PICK k : k = [window |-> w, side |-> side, view |-> v]
    OBVIOUS
  <2>4. k \in [window : OptWindow, side : Sides, view : Places] /\ k.window = w
    BY <2>2, <2>3 DEF OptWindow, Sides
  <2>5. t = [s EXCEPT !.keptView = k]
    BY <1>2, <2>1, <2>3 DEF Kept
  <2>6. s \in StripSet /\ Whole(s)
    BY WholeIs, Tame
  <2>7. t \in StripSet /\ t.keptView = k
    BY <2>4, <2>5, <2>6 DEF StripSet
  <2>8. Kin(s, t) /\ t.centre = s.centre /\ t.keptPlace = s.keptPlace /\ t.measured = s.measured
    BY <2>5, <2>6 DEF Kin, StripSet
  <2>9. Whole(t) /\ Tiled(t) = Tiled(s)
    BY <2>6, <2>7, <2>8, KinWhole
  <2>10. HeldFor(t) /\ (Lengths(s) => Lengths(t))
    <3>1. HeldFor(s)
      BY WholeIs
    <3> QED BY <2>4, <2>7, <2>8, <3>1 DEF HeldFor, Kin, Lengths
  <2> QED BY <2>9, <2>10, WholeIs DEF Keeps
<1> QED BY <1>1, <1>2

LEMMA FoldsBack ==
    ASSUME NEW s, Whole(s), NEW w, w \in Tiled(s), NEW side, NEW nv \in BOOLEAN, NEW t, t = FoldedIn(s, w, side, nv)
    PROVE  Keeps(s, t)
<1>1. PICK u : u = Selecting(s, w)
  OBVIOUS
<1>2. Whole(u) /\ Tiled(u) = Tiled(s) /\ u.selected = w /\ u \in StripSet
  BY <1>1, SelectingIs, Tame
<1>3. CASE s.keptView.window = w /\ s.keptView.side = side
  <2>1. t = HoldSelected(u, w, "start", s.keptView.view)
    BY <1>1, <1>3 DEF FoldedIn, ReturnToView
  <2>2. s.keptView.view \in Places /\ w \in Windows
    BY Tame DEF StripSet
  <2>3. Freed(u, t)
    <3>1. "start" \in {"place", "start"}
      OBVIOUS
    <3> QED BY <1>2, <2>1, <2>2, <3>1, HeldSelected
  <2>4. t \in StripSet /\ Kin(u, t) /\ HeldFor(t) /\ Lengths(t)
    BY <2>3, FreedHolds
  <2>5. Whole(t) /\ Tiled(t) = Tiled(u)
    BY <1>2, <2>4, KinWhole
  <2> QED BY <1>2, <2>4, <2>5, WholeIs DEF Keeps
<1>4. CASE ~(s.keptView.window = w /\ s.keptView.side = side)
  <2>1. t = Show(u, nv)
    BY <1>1, <1>4 DEF FoldedIn
  <2> QED BY <1>2, <2>1, ShowsAfter
<1> QED BY <1>3, <1>4

LEMMA FoldToggled ==
    ASSUME NEW s, Good(s), NEW side \in {"left", "right"}, NEW nv \in BOOLEAN, NEW t, t = ToggleFold(s, side, nv)
    PROVE  Keeps(s, t)
<1>1. Whole(s) /\ s \in StripSet /\ Arranged(s.columns)
  BY WholeIs, Tame
<1>2. PICK w : w = s.selected
  OBVIOUS
<1>3. CASE ~Located(s)
  BY <1>3, Itself DEF ToggleFold
<1>4. Located(s) => w \in Tiled(s) /\ w \in Windows
  BY <1>1, <1>2, TiledIs DEF Located
<1>5. CASE Located(s) /\ Stacked(s, w)
  <2>1. PICK u : u = FoldOut(s, w, side)
    OBVIOUS
  <2>2. Changes(s, u)
    BY <1>1, <1>4, <1>5, <2>1, FoldsOut
  <2>3. PICK v : v = Selecting(u, w)
    OBVIOUS
  <2>4. Whole(v) /\ Tiled(v) = Tiled(u) /\ v.selected = w
    BY <1>4, <1>5, <2>2, <2>3, SelectingIs DEF Changes
  <2>5. PICK x : x = Show(v, nv)
    OBVIOUS
  <2>6. Keeps(s, x)
    BY <2>2, <2>4, <2>5, ShowsAfter DEF Changes
  <2>7. x.selected = w
    <3>1. Shown(v, x, nv)
      BY <2>4, <2>5, Tame, ShowShows
    <3> QED BY <2>4, <3>1 DEF Shown, Kin
  <2>8. PICK views : views = IF nv THEN ViewOf(s, w) ELSE {}
    OBVIOUS
  <2>9. views \subseteq Places
    BY <1>1, <2>8, ViewsAre
  <2>10. t = Kept(x, w, side, views)
    BY <1>2, <1>5, <2>1, <2>3, <2>5, <2>8 DEF ToggleFold
  <2>11. Keeps(x, t)
    BY <1>4, <1>5, <2>6, <2>7, <2>9, <2>10, Keeping DEF Keeps
  <2> QED BY <2>6, <2>11, KeepsBoth
<1>6. CASE Located(s) /\ ~Stacked(s, w) /\ ColumnToward(s, side) = {}
  BY <1>2, <1>6, Itself DEF ToggleFold
<1>7. CASE Located(s) /\ ~Stacked(s, w) /\ ColumnToward(s, side) # {}
  <2>1. PICK target : target = CHOOSE d \in ColumnToward(s, side) : TRUE
    OBVIOUS
  <2>2. target \in ColumnToward(s, side)
    BY <1>7, <2>1
  <2>3. target \in DOMAIN s.columns /\ target # ColumnOf(s, w)
    <3>1. OnStrip(s, w)
      BY <1>2, <1>7 DEF Located
    <3>2. ColumnOf(s, w) \in DOMAIN s.columns
      BY <1>1, <3>1, WhereIs
    <3>3. DOMAIN s.columns = 1..Len(s.columns)
      BY <1>1 DEF Arranged
    <3>4. ColumnOf(s, w) \in Int
      BY <3>2, <3>3
    <3>5. target \in DOMAIN s.columns /\ (target = ColumnOf(s, w) - 1 \/ target = ColumnOf(s, w) + 1)
      BY <1>2, <2>2 DEF ColumnToward
    <3> QED BY <3>4, <3>5
  <2>4. PICK u : u = FoldIn(s, w, target)
    OBVIOUS
  <2>5. Changes(s, u)
    BY <1>1, <1>2, <1>4, <1>7, <2>3, <2>4, FoldsIn
  <2>6. t = FoldedIn(u, w, side, nv)
    BY <1>2, <1>7, <2>1, <2>4 DEF ToggleFold
  <2>7. Keeps(u, t)
    BY <1>4, <1>7, <2>5, <2>6, FoldsBack DEF Changes
  <2> QED BY <2>5, <2>7 DEF Changes, Keeps
<1> QED BY <1>3, <1>5, <1>6, <1>7

-----------------------------------------------------------------------------
(* Explosions.                                                             *)

LEMMA LeastIn ==
    ASSUME NEW S, S \subseteq Nat, S # {}
    PROVE  \E x \in S : \A y \in S : x <= y
<1> DEFINE R == OpToRel(<, Nat)
<1>1. IsWellFoundedOn(R, Nat)
  BY NatLessThanWellFounded
<1>2. \A x, y \in Nat : x < y => <<x, y>> \in R
  BY DEF OpToRel
<1> HIDE DEF R
<1>3. \E x \in S : \A y \in S : ~ (<<y, x>> \in R)
  BY <1>1, WFMin
<1>4. PICK x \in S : \A y \in S : ~ (<<y, x>> \in R)
  BY <1>3
<1>5. ASSUME NEW y \in S PROVE x <= y
  <2>1. x \in Nat /\ y \in Nat
    OBVIOUS
  <2>2. ~ (y < x)
    BY <1>2, <1>4, <2>1
  <2> QED BY <2>1, <2>2
<1> QED BY <1>4, <1>5

LEMMA SetInduction ==
    ASSUME NEW T, 0 \in T, \A n \in Nat : n \in T => n + 1 \in T
    PROVE  Nat \subseteq T
<1> DEFINE U == {n \in Nat : n \notin T}
<1> SUFFICES ASSUME U # {} PROVE FALSE
  OBVIOUS
<1>1. U \subseteq Nat
  OBVIOUS
<1>2. PICK x \in U : \A y \in U : x <= y
  <2> HIDE DEF U
  <2> QED BY <1>1, LeastIn
<1>3. x \in Nat /\ x # 0 /\ x \notin T
  BY <1>2
<1>4. x - 1 \in Nat /\ (x - 1) + 1 = x
  BY <1>3
<1>5. x - 1 \in U
  BY <1>3, <1>4
<1> QED BY <1>2, <1>3, <1>5

(* The windows of ws split out of their stacks up to the n-th.             *)
SplitUpto(s, ws, side, f, n) ==
    f = [i \in 0..n |-> IF i = 0 THEN s ELSE SplitOut(f[i - 1], ws[i], side)]

LEMMA EachIs ==
    ASSUME NEW s, NEW ws, NEW side, Len(ws) \in Nat
    PROVE  \E f : /\ SplitOutEach(s, ws, side) = f[Len(ws)] /\ f[0] = s
                  /\ \A i \in 1..Len(ws) : f[i] = SplitOut(f[i - 1], ws[i], side)
<1> DEFINE n == Len(ws)
           Upto(f, m) == SplitUpto(s, ws, side, f, m)
           T == { m \in Nat : \E f : Upto(f, m) }
<1>1. Nat \subseteq T
  <2>1. 0 \in T
    <3>1. Upto([i \in 0..0 |-> s], 0)
      BY DEF SplitUpto
    <3> QED BY <3>1
  <2>2. ASSUME NEW m \in Nat, m \in T PROVE m + 1 \in T
    <3>1. PICK f : Upto(f, m)
      BY <2>2
    <3> DEFINE g == [i \in 0..(m + 1) |-> IF i = m + 1 THEN SplitOut(f[m], ws[m + 1], side) ELSE f[i]]
    <3>2. f[0] = s /\ \A i \in 1..m : f[i] = SplitOut(f[i - 1], ws[i], side)
      BY <3>1 DEF SplitUpto
    <3>3. g[0] = s
      BY <3>2
    <3>4. g[m + 1] = SplitOut(f[m], ws[m + 1], side) /\ \A i \in 0..m : g[i] = f[i]
      OBVIOUS
    <3>5. g = [i \in 0..(m + 1) |-> g[i]]
      OBVIOUS
    <3> HIDE DEF g
    <3>6. \A i \in 1..(m + 1) : g[i] = SplitOut(g[i - 1], ws[i], side)
      <4> SUFFICES ASSUME NEW i \in 1..(m + 1) PROVE g[i] = SplitOut(g[i - 1], ws[i], side)
        OBVIOUS
      <4>1. CASE i = m + 1
        <5>1. g[i - 1] = f[m]
          BY <3>4, <4>1
        <5> QED BY <3>4, <4>1, <5>1
      <4>2. CASE i # m + 1
        <5>1. i \in 1..m /\ i - 1 \in 0..m /\ i \in 0..m
          BY <4>2
        <5>2. g[i] = f[i] /\ g[i - 1] = f[i - 1]
          BY <3>4, <5>1
        <5> QED BY <3>2, <5>1, <5>2
      <4> QED BY <4>1, <4>2
    <3>7. \A i \in 0..(m + 1) : g[i] = IF i = 0 THEN s ELSE SplitOut(g[i - 1], ws[i], side)
      <4>1. \A i \in 0..(m + 1) : i = 0 \/ i \in 1..(m + 1)
        OBVIOUS
      <4> QED BY <3>3, <3>6, <4>1
    <3>8. Upto(g, m + 1)
      BY <3>5, <3>7 DEF SplitUpto
    <3> HIDE DEF Upto
    <3> QED BY <3>8
  <2> HIDE DEF T
  <2> QED BY <2>1, <2>2, SetInduction
<1>2. PICK u : u = CHOOSE f : Upto(f, n)
  OBVIOUS
<1>3. Upto(u, n)
  <2> HIDE DEF Upto
  <2> QED BY <1>1, <1>2
<1>4. SplitOutEach(s, ws, side) = u[n]
  BY <1>2 DEF SplitOutEach, SplitUpto
<1>5. u[0] = s /\ \A i \in 1..n : u[i] = SplitOut(u[i - 1], ws[i], side)
  BY <1>3 DEF SplitUpto
<1> QED BY <1>4, <1>5

LEMMA EachSplitOut ==
    ASSUME NEW s, Whole(s), NEW ws \in Seq(Tiled(s)), NEW side \in {"left", "right"}, NEW t, t = SplitOutEach(s, ws, side)
    PROVE  /\ t \in StripSet /\ SameRest(s, t) /\ Arranged(t.columns)
           /\ Tiled(t) = Tiled(s) /\ Soles(s) \subseteq Soles(t)
<1>1. Len(ws) \in Nat /\ \A i \in 1..Len(ws) : ws[i] \in Tiled(s)
  OBVIOUS
<1>2. PICK f : /\ t = f[Len(ws)] /\ f[0] = s
               /\ \A i \in 1..Len(ws) : f[i] = SplitOut(f[i - 1], ws[i], side)
  BY <1>1, EachIs
<1> DEFINE Same(x) == /\ x \in StripSet /\ SameRest(s, x) /\ Arranged(x.columns)
                      /\ Tiled(x) = Tiled(s) /\ Soles(s) \subseteq Soles(x)
           T == {m \in Nat : m <= Len(ws) => Same(f[m])}
<1>3. 0 \in T
  <2>1. Same(s)
    BY Tame DEF SameRest
  <2> HIDE DEF Same
  <2> QED BY <1>2, <2>1
<1>4. ASSUME NEW m \in Nat, m \in T PROVE m + 1 \in T
  <2> SUFFICES ASSUME m + 1 <= Len(ws) PROVE Same(f[m + 1])
    OBVIOUS
  <2>1. Same(f[m])
    <3> HIDE DEF Same
    <3> QED BY <1>1, <1>4
  <2>2. PICK x : x = f[m]
    OBVIOUS
  <2>3. PICK y : y = f[m + 1]
    OBVIOUS
  <2>4. m + 1 \in 1..Len(ws) /\ (m + 1) - 1 = m
    BY <1>1
  <2>5. y = SplitOut(x, ws[m + 1], side) /\ ws[m + 1] \in Tiled(x)
    BY <1>1, <1>2, <2>1, <2>2, <2>3, <2>4
  <2>6. x \in StripSet /\ Arranged(x.columns)
    BY <2>1, <2>2
  <2>7. /\ y \in StripSet /\ SameRest(x, y) /\ Arranged(y.columns)
        /\ Tiled(y) = Tiled(x) /\ Soles(x) \subseteq Soles(y)
    BY <2>5, <2>6, SplitsOut
  <2> QED BY <2>1, <2>2, <2>3, <2>7 DEF SameRest
<1>5. Nat \subseteq T
  <2> HIDE DEF T
  <2> QED BY <1>3, <1>4, SetInduction
<1>6. Same(f[Len(ws)])
  <2> HIDE DEF Same
  <2> QED BY <1>1, <1>5
<1> QED BY <1>2, <1>6

LEMMA Explodes ==
    ASSUME NEW s, Good(s), NEW nv \in BOOLEAN, NEW t, t = Explode(s, nv)
    PROVE  t = s \/ \E v : Whole(v) /\ Tiled(v) = Tiled(s) /\ t = Show(v, nv)
<1>1. Whole(s) /\ s \in StripSet /\ Arranged(s.columns)
  BY WholeIs, Tame
<1>2. PICK w : w = s.selected
  OBVIOUS
<1>3. CASE ~Located(s) \/ ~Stacked(s, w)
  BY <1>2, <1>3 DEF Explode
<1>4. CASE Located(s) /\ Stacked(s, w)
  <2>1. PICK r : r = RowOf(s, w)
    OBVIOUS
  <2>2. PICK ws : ws = Stack(s, w)
    OBVIOUS
  <2>3. OnStrip(s, w)
    BY <1>2, <1>4 DEF Located
  <2>4. /\ ColumnOf(s, w) \in DOMAIN s.columns /\ ws = s.columns[ColumnOf(s, w)].windows
        /\ r \in 1..Len(ws) /\ ws \in Seq(Windows)
    BY <1>1, <2>1, <2>2, <2>3, WhereIs
  <2>5. ws \in Seq(Tiled(s))
    <3>1. \A i \in 1..Len(ws) : ws[i] \in Tiled(s)
      BY <1>1, <2>4, Rowed
    <3> QED BY <2>4, <3>1
  <2>6. PICK over : over = SubSeq(ws, 1, r - 1)
    OBVIOUS
  <2>7. over \in Seq(Tiled(s))
    BY <2>4, <2>5, <2>6
  <2>8. PICK u : u = SplitOutEach(s, over, "left")
    OBVIOUS
  <2>9. /\ u \in StripSet /\ SameRest(s, u) /\ Arranged(u.columns)
        /\ Tiled(u) = Tiled(s) /\ Soles(s) \subseteq Soles(u)
    <3>1. "left" \in {"left", "right"}
      OBVIOUS
    <3> QED BY <1>1, <2>7, <2>8, <3>1, EachSplitOut
  <2>10. Whole(u)
    BY <1>1, <2>9, Rearranged
  <2>11. PICK rest : rest = SubSeq(ws, r + 1, Len(ws))
    OBVIOUS
  <2>12. rest \in Seq(Tiled(s))
    BY <2>4, <2>5, <2>11
  <2>13. PICK under : under = Reverse(rest)
    OBVIOUS
  <2>14. under \in Seq(Tiled(u))
    <3>1. under \in Seq(Tiled(s))
      BY <2>12, <2>13 DEF Reverse
    <3> QED BY <2>9, <3>1
  <2>15. PICK v : v = SplitOutEach(u, under, "right")
    OBVIOUS
  <2>16. /\ v \in StripSet /\ SameRest(u, v) /\ Arranged(v.columns)
         /\ Tiled(v) = Tiled(u) /\ Soles(u) \subseteq Soles(v)
    <3>1. "right" \in {"left", "right"}
      OBVIOUS
    <3> QED BY <2>10, <2>14, <2>15, <3>1, EachSplitOut
  <2>17. Whole(v)
    BY <2>10, <2>16, Rearranged
  <2>18. t = Show(v, nv)
    BY <1>2, <1>4, <2>1, <2>2, <2>6, <2>8, <2>11, <2>13, <2>15 DEF Explode
  <2> QED BY <2>9, <2>16, <2>17, <2>18
<1> QED BY <1>3, <1>4

LEMMA Exploded ==
    ASSUME NEW s, Good(s), NEW nv \in BOOLEAN, NEW t, t = Explode(s, nv)
    PROVE  Keeps(s, t)
  BY Explodes, ShowsAfter, Itself

-----------------------------------------------------------------------------
(* Widths given, and the scroll made for the selection again.              *)

LEMMA RescrollKeeps ==
    ASSUME NEW s, NEW u, Whole(u), Tiled(u) = Tiled(s), NEW w, w \in Tiled(s), NEW places, PlacesOK(places),
           NEW nv \in BOOLEAN, NEW t, t = RescrollAfterWidth(Choosing(u, w), w, places, nv)
    PROVE  Keeps(s, t)
<1>1. PICK v : v = Choosing(u, w)
  OBVIOUS
<1>2. Whole(v) /\ Tiled(v) = Tiled(s) /\ v.selected = w
  BY <1>1, Chosen
<1>3. v \in StripSet /\ w \in Windows
  BY <1>2, Tame
<1>4. Shown(v, t, nv)
  BY <1>1, <1>2, <1>3, RescrollShows
<1> QED BY <1>2, <1>4, ThenShown

LEMMA WidthGives ==
    ASSUME NEW s, Good(s), Lengths(s), NEW w, w \in Tiled(s), NEW kind, NEW x \in Int, NEW nv \in BOOLEAN,
           NEW t, t = GiveWidth(s, w, kind, x, nv)
    PROVE  Keeps(s, t)
<1>1. Whole(s) /\ s \in StripSet /\ w \in Windows
  BY WholeIs, Tame
<1>2. PICK u : u = SetColumnWidth(s, w, kind, x)
  OBVIOUS
<1>3. Changes(s, u)
  BY <1>1, <1>2, ColumnWidthSet
<1>4. PICK places : places = IF nv THEN PlaceOf(s, w) ELSE {}
  OBVIOUS
<1>5. PlacesOK(places)
  <2>1. PlacesOK(PlaceOf(s, w)) /\ PlacesOK({})
    BY <1>1, PlacesKept
  <2> QED BY <1>4, <2>1
<1>6. t = RescrollAfterWidth(Choosing(u, w), w, places, nv)
  BY <1>2, <1>4 DEF GiveWidth, Choosing
<1>7. Whole(u) /\ Tiled(u) = Tiled(s)
  BY <1>3 DEF Changes
<1> QED BY <1>5, <1>6, <1>7, RescrollKeeps

LEMMA FullWidthToggled ==
    ASSUME NEW s, Good(s), Lengths(s), NEW w, NEW nv \in BOOLEAN, NEW t, t = ToggleFullWidth(s, w, nv)
    PROVE  Keeps(s, t)
<1>1. Whole(s) /\ s \in StripSet /\ Arranged(s.columns)
  BY WholeIs, Tame
<1>2. CASE ~OnStrip(s, w)
  BY <1>2, Itself DEF ToggleFullWidth
<1>3. CASE OnStrip(s, w)
  <2>1. w \in Tiled(s) /\ w \in Windows
    BY <1>1, <1>3, TiledIs
  <2>2. PICK u : u = IF w \notin s.fullWidth THEN EnterFullWidth(s, w) ELSE LeaveFullWidthRestoring(s, w)
    OBVIOUS
  <2>3. Changes(s, u)
    <3>1. CASE w \notin s.fullWidth
      BY <1>1, <2>1, <2>2, <3>1, Entered
    <3>2. CASE w \in s.fullWidth
      BY <1>1, <2>1, <2>2, <3>2, LeftRestoring
    <3> QED BY <3>1, <3>2
  <2>4. PICK places : places = IF ~nv THEN {} ELSE IF w \notin s.fullWidth THEN PlaceOf(s, w) ELSE KeptPlaceOf(s, w)
    OBVIOUS
  <2>5. PlacesOK(places)
    <3>1. PlacesOK(PlaceOf(s, w)) /\ PlacesOK(KeptPlaceOf(s, w)) /\ PlacesOK({})
      BY <1>1, <2>1, PlacesKept
    <3> QED BY <2>4, <3>1
  <2>6. t = RescrollAfterWidth(Choosing(u, w), w, places, nv)
    BY <1>3, <2>2, <2>4 DEF ToggleFullWidth, Choosing
  <2>7. Whole(u) /\ Tiled(u) = Tiled(s)
    BY <2>3 DEF Changes
  <2> QED BY <2>1, <2>5, <2>6, <2>7, RescrollKeeps
<1> QED BY <1>2, <1>3

LEMMA PresetIs == ASSUME NEW x \in Int, Presets # <<>> PROVE NextPreset(x) \in Int
<1>1. Presets \in Seq(1..Viewport) /\ Viewport \in Nat
  BY StripAssumption
<1>2. PICK I : I = {i \in 1..Len(Presets) : Presets[i] > x}
  OBVIOUS
<1>3. Len(Presets) \in Nat /\ 1 \in 1..Len(Presets) /\ I \subseteq Nat
  BY <1>1, <1>2
<1>4. I # {} => \E i \in I : \A j \in I : i =< j
  BY <1>3, LeastIn
<1>5. I # {} => Min(I) \in I
  BY <1>4 DEF Min
<1>6. PICK i : i = SelectInSeq(Presets, LAMBDA p : p > x)
  OBVIOUS
<1>7. i = IF I # {} THEN Min(I) ELSE 0
  BY <1>2, <1>6 DEF SelectInSeq
<1>8. (IF i = 0 THEN 1 ELSE i) \in 1..Len(Presets)
  BY <1>2, <1>3, <1>5, <1>7
<1>9. NextPreset(x) = Presets[IF i = 0 THEN 1 ELSE i]
  BY <1>6 DEF NextPreset
<1> QED BY <1>1, <1>8, <1>9

LEMMA WidthNowIs ==
    ASSUME NEW s, Whole(s), NEW w, w \in Tiled(s)
    PROVE  WidthNow(s, w) \in Int
<1>1. s.ratio \in Int /\ Arranged(s.columns) /\ Viewport \in Int
  BY Tame, StripAssumption
<1>2. OnStrip(s, w)
  BY <1>1, TiledIs
<1>3. s.columns[ColumnOf(s, w)] \in ColumnSet
  BY <1>1, <1>2, WhereIs
<1>4. s.columns[ColumnOf(s, w)].width.offset \in Int
  BY <1>3 DEF ColumnSet, WidthSet
<1> QED BY <1>1, <1>4 DEF WidthNow

LEMMA PresetCycled ==
    ASSUME NEW s, Good(s), Lengths(s), NEW nv \in BOOLEAN, NEW t, t = CyclePreset(s, nv)
    PROVE  Keeps(s, t)
<1>1. Whole(s) /\ Arranged(s.columns)
  BY WholeIs, Tame
<1>2. PICK w : w = SelectedOrFirst(s)
  OBVIOUS
<1>3. CASE ~OnStrip(s, w) \/ Presets = <<>>
  BY <1>2, <1>3, Itself DEF CyclePreset
<1>4. CASE OnStrip(s, w) /\ Presets # <<>>
  <2>1. w \in Tiled(s)
    BY <1>1, <1>4, TiledIs
  <2>2. PICK x : x = NextPreset(WidthNow(s, w))
    OBVIOUS
  <2>3. x \in Int
    BY <1>1, <1>4, <2>1, <2>2, WidthNowIs, PresetIs
  <2>4. t = GiveWidth(s, w, IF x = Viewport THEN "unbounded" ELSE "bounded", x, nv)
    BY <1>2, <1>4, <2>2 DEF CyclePreset
  <2> QED BY <2>1, <2>3, <2>4, WidthGives
<1> QED BY <1>3, <1>4

LEMMA BoundedIs ==
    ASSUME NEW kind, kind \in {"full", "bounded", "unbounded"}, NEW x \in Int
    PROVE  Bounded(kind, x) \in 1..Viewport
<1>1. {MinWidth, MaxWidth, Viewport} \subseteq Nat \ {0} /\ MinWidth <= MaxWidth /\ MaxWidth < Viewport
  BY StripAssumption
<1> QED BY <1>1 DEF Bounded, Clamp

Rerated(s, x) == [s EXCEPT !.ratio = x]
LEMMA RatioGiven ==
    ASSUME NEW s, Good(s), NEW x \in Int, NEW t, t = Rerated(s, x)
    PROVE  Keeps(s, t)
<1>1. s \in StripSet
  BY DEF Good
<1>2. /\ t \in StripSet /\ t.columns = s.columns /\ t.selected = s.selected /\ t.fullWidth = s.fullWidth
      /\ t.widthOrigins = s.widthOrigins /\ t.foldOrigins = s.foldOrigins
      /\ t.centre = s.centre /\ t.keptView = s.keptView /\ t.keptPlace = s.keptPlace /\ t.measured = s.measured
  BY <1>1 DEF Rerated, StripSet
<1>3. \A w : OnStrip(t, w) <=> OnStrip(s, w)
  BY <1>2 DEF OnStrip
<1>4. \A w : Stacked(t, w) <=> Stacked(s, w)
  BY <1>2 DEF Stacked, Stack, ColumnOf
<1>5. Tiled(t) = Tiled(s)
  BY <1>3 DEF Tiled
<1>6. Led(t) /\ Alone(t) /\ FullOnly(t)
  BY <1>2, <1>3, <1>4 DEF Good, Led, Alone, FullOnly
<1>7. Beyond(t, t.widthOrigins) /\ Beyond(t, t.foldOrigins)
  BY <1>2, <1>3 DEF Good, Beyond
<1>8. HeldFor(t) /\ (Lengths(s) => Lengths(t))
  BY <1>2 DEF Good, HeldFor, Lengths
<1>9. Good(t)
  BY <1>2, <1>6, <1>7, <1>8 DEF Good
<1> QED BY <1>5, <1>8, <1>9 DEF Keeps

LEMMA Resizes ==
    ASSUME NEW s, Good(s), Lengths(s), NEW amount \in Int, NEW nv \in BOOLEAN, NEW t, t = ResizeBy(s, amount, nv)
    PROVE  Keeps(s, t)
<1>1. Whole(s) /\ Arranged(s.columns) /\ s.ratio \in Int
  BY WholeIs, Tame
<1>2. PICK w : w = s.selected
  OBVIOUS
<1>3. PICK now : now = WidthNow(s, w)
  OBVIOUS
<1>4. CASE ~Located(s)
  <2>1. t = Rerated(s, Bounded("bounded", s.ratio + amount))
    BY <1>4 DEF ResizeBy, Rerated
  <2>2. Bounded("bounded", s.ratio + amount) \in Int
    BY <1>1, BoundedIs
  <2> QED BY <2>1, <2>2, RatioGiven
<1>5. CASE t = s
  BY <1>5, Itself
<1>6. CASE Located(s) /\ t # s
  <2>1. w \in Tiled(s)
    BY <1>1, <1>2, <1>6, TiledIs DEF Located
  <2>2. now \in Int
    BY <1>1, <1>3, <2>1, WidthNowIs
  <2>3. Bounded("bounded", now + amount) \in Int
    BY <2>2, BoundedIs
  <2>4. t = GiveWidth(s, w, "bounded", Bounded("bounded", now + amount), nv)
    BY <1>2, <1>3, <1>6 DEF ResizeBy
  <2> QED BY <2>1, <2>3, <2>4, WidthGives
<1> QED BY <1>4, <1>5, <1>6

LEMMA Centers ==
    ASSUME NEW s, Good(s), NEW t, t = Center(s)
    PROVE  Keeps(s, t)
<1>1. Whole(s) /\ s \in StripSet /\ s.centre \in {NoWindow, s.selected}
  BY WholeIs, Tame DEF HeldFor
<1>2. Shown(s, t, TRUE)
  BY <1>1, CenterShows
<1> QED BY <1>1, <1>2, ThenShown

-----------------------------------------------------------------------------
(* A layout pass, and the scroll taken to a column.                        *)

LEMMA WidthIs ==
    ASSUME NEW s \in StripSet, NEW k \in ColumnSet
    PROVE  Width(s, k) \in 1..Viewport
<1>1. s.ratio \in Int /\ k.width.offset \in Int
  BY DEF StripSet, ColumnSet, WidthSet
<1>2. Kind(s, k) \in {"full", "bounded", "unbounded"}
  BY DEF Kind
<1>3. Bounded("bounded", s.ratio) \in Int
  BY <1>1, BoundedIs
<1>4. Bounded("bounded", s.ratio) + k.width.offset \in Int
  BY <1>1, <1>3
<1> QED BY <1>2, <1>4, BoundedIs DEF Width

(* Lengths added up to the n-th.                                           *)
SumUpto(k, f, n) == f = [i \in 0..n |-> IF i = 0 THEN 0 ELSE f[i - 1] + k[i]]

LEMMA SumIs ==
    ASSUME NEW n \in Nat, NEW k, \A i \in 1..n : k[i] \in Int
    PROVE  \E f : SumUpto(k, f, n) /\ \A i \in 0..n : f[i] \in Int
<1> DEFINE Sums(f, m) == SumUpto(k, f, m) /\ \A i \in 0..m : f[i] \in Int
           T == {m \in Nat : m <= n => \E f : Sums(f, m)}
<1>1. 0 \in T
  <2>1. Sums([i \in 0..0 |-> 0], 0)
    BY DEF SumUpto
  <2> HIDE DEF Sums
  <2> QED BY <2>1
<1>2. ASSUME NEW m \in Nat, m \in T PROVE m + 1 \in T
  <2> SUFFICES ASSUME m + 1 <= n PROVE \E f : Sums(f, m + 1)
    OBVIOUS
  <2>1. PICK f : Sums(f, m)
    <3> HIDE DEF Sums
    <3> QED BY <1>2
  <2> DEFINE g == [i \in 0..(m + 1) |-> IF i = m + 1 THEN f[m] + k[m + 1] ELSE f[i]]
  <2>2. f[0] = 0 /\ (\A i \in 1..m : f[i] = f[i - 1] + k[i]) /\ \A i \in 0..m : f[i] \in Int
    BY <2>1 DEF SumUpto
  <2>3. g[m + 1] = f[m] + k[m + 1] /\ \A i \in 0..m : g[i] = f[i]
    OBVIOUS
  <2>4. g = [i \in 0..(m + 1) |-> g[i]]
    OBVIOUS
  <2> HIDE DEF g
  <2>5. ASSUME NEW i \in 0..(m + 1) PROVE g[i] = (IF i = 0 THEN 0 ELSE g[i - 1] + k[i]) /\ g[i] \in Int
    <3>1. CASE i = m + 1
      <4>1. i # 0 /\ i - 1 = m /\ m \in 0..m /\ m + 1 \in 1..n
        BY <3>1
      <4>2. g[i - 1] = f[m] /\ f[m] \in Int /\ k[m + 1] \in Int
        BY <2>2, <2>3, <4>1
      <4> QED BY <2>3, <3>1, <4>1, <4>2
    <3>2. CASE i = 0
      BY <2>2, <2>3, <3>2
    <3>3. CASE i # 0 /\ i # m + 1
      <4>1. i \in 1..m /\ i - 1 \in 0..m /\ i \in 0..m
        BY <3>3
      <4> QED BY <2>2, <2>3, <3>3, <4>1
    <3> QED BY <3>1, <3>2, <3>3
  <2>6. Sums(g, m + 1)
    BY <2>4, <2>5 DEF SumUpto
  <2> HIDE DEF Sums
  <2> QED BY <2>6
<1>3. Nat \subseteq T
  <2> HIDE DEF T
  <2> QED BY <1>1, <1>2, SetInduction
<1> HIDE DEF Sums
<1>4. \E f : Sums(f, n)
  BY <1>3
<1> QED BY <1>4 DEF Sums

LEMMA EndsAre ==
    ASSUME NEW s \in StripSet, NEW c \in 0..Len(s.columns)
    PROVE  Ends(s)[c] \in Int
<1>1. PICK n : n = Len(s.columns)
  OBVIOUS
<1>2. s.columns \in Seq(ColumnSet) /\ n \in Nat /\ 1..n = DOMAIN s.columns
  BY <1>1 DEF StripSet
<1>3. PICK k : k = [i \in 1..n |-> Width(s, s.columns[i])]
  OBVIOUS
<1>4. ASSUME NEW i \in 1..n PROVE k[i] = Width(s, s.columns[i]) /\ k[i] \in Int
  <2>1. k[i] = Width(s, s.columns[i]) /\ s.columns[i] \in ColumnSet
    BY <1>2, <1>3
  <2>2. Width(s, s.columns[i]) \in 1..Viewport
    BY <2>1, WidthIs
  <2> QED BY <2>1, <2>2
<1> DEFINE At(f) == f = [i \in 0..n |-> IF i = 0 THEN 0 ELSE f[i - 1] + Width(s, s.columns[i])]
<1>5. ASSUME NEW f PROVE SumUpto(k, f, n) <=> At(f)
  <2>1. \A i \in 0..n : i # 0 => i \in 1..n
    BY <1>2
  <2>2. [i \in 0..n |-> IF i = 0 THEN 0 ELSE f[i - 1] + k[i]]
          = [i \in 0..n |-> IF i = 0 THEN 0 ELSE f[i - 1] + Width(s, s.columns[i])]
    BY <1>4, <2>1
  <2> QED BY <2>2 DEF SumUpto
<1>6. Ends(s) = CHOOSE f : At(f)
  BY <1>1 DEF Ends
<1>7. PICK u : u = CHOOSE f : At(f)
  OBVIOUS
<1>8. PICK f : SumUpto(k, f, n) /\ \A i \in 0..n : f[i] \in Int
  <2>1. \A i \in 1..n : k[i] \in Int
    BY <1>4
  <2> QED BY <1>2, <2>1, SumIs
<1>9. At(u)
  <2>1. At(f)
    BY <1>5, <1>8
  <2> HIDE DEF At
  <2> QED BY <1>7, <2>1
<1>10. SumUpto(k, u, n)
  BY <1>5, <1>9
<1>11. \A i \in 0..n : u[i] = IF i = 0 THEN 0 ELSE u[i - 1] + k[i]
  BY <1>10 DEF SumUpto
<1> DEFINE T == {m \in Nat : m <= n => u[m] \in Int}
<1>12. 0 \in T
  BY <1>2, <1>11
<1>13. ASSUME NEW m \in Nat, m \in T PROVE m + 1 \in T
  <2> SUFFICES ASSUME m + 1 <= n PROVE u[m + 1] \in Int
    OBVIOUS
  <2>1. u[m] \in Int /\ m + 1 \in 1..n /\ m + 1 \in 0..n /\ (m + 1) - 1 = m /\ m + 1 # 0
    BY <1>2, <1>13
  <2>2. u[m + 1] = u[m] + k[m + 1]
    BY <1>11, <2>1
  <2> QED BY <1>4, <2>1, <2>2
<1>14. Nat \subseteq T
  <2> HIDE DEF T
  <2> QED BY <1>12, <1>13, SetInduction
<1> QED BY <1>1, <1>2, <1>6, <1>7, <1>14

LEMMA StartsAre ==
    ASSUME NEW s \in StripSet, NEW c \in 1..(Len(s.columns) + 1)
    PROVE  Start(s, c) \in Int
<1>1. c - 1 \in 0..Len(s.columns)
  BY DEF StripSet
<1> QED BY <1>1, EndsAre DEF Start

Geometries == [start : Int, width : Int, anchor : Int, delta : Int, last : Int, end : Int]

LEMMA SelectedColumnIs ==
    ASSUME NEW s \in StripSet, Arranged(s.columns), s.columns # <<>>
    PROVE  SelectedColumn(s) \in DOMAIN s.columns
<1>1. CASE Located(s)
  <2>1. OnStrip(s, s.selected)
    BY <1>1 DEF Located
  <2>2. ColumnOf(s, s.selected) \in DOMAIN s.columns
    BY <2>1, WhereIs
  <2> QED BY <1>1, <2>2 DEF SelectedColumn
<1>2. CASE ~Located(s)
  <2>1. s.columns \in Seq(ColumnSet)
    BY DEF StripSet
  <2>2. 1 \in DOMAIN s.columns
    BY <2>1
  <2> QED BY <1>2, <2>2 DEF SelectedColumn
<1> QED BY <1>1, <1>2

LEMMA GeometryIs ==
    ASSUME NEW s \in StripSet, Arranged(s.columns), NEW nv \in BOOLEAN
    PROVE  Geometry(s, nv) \in Geometries
<1>1. s.columns \in Seq(ColumnSet) /\ Viewport \in Int /\ s.ratio \in Int /\ Len(s.columns) \in Nat
  BY StripAssumption DEF StripSet
<1>2. PICK c : c = SelectedColumn(s)
  OBVIOUS
<1>3. PICK width : width = IF s.columns = <<>> THEN Bounded("bounded", s.ratio) ELSE Width(s, s.columns[c])
  OBVIOUS
<1>4. width \in Int
  <2>1. Bounded("bounded", s.ratio) \in Int
    BY <1>1, BoundedIs
  <2>2. CASE s.columns # <<>>
    <3>1. s.columns[c] \in ColumnSet
      BY <1>1, <1>2, <2>2, SelectedColumnIs
    <3>2. Width(s, s.columns[c]) \in 1..Viewport
      BY <3>1, WidthIs
    <3> QED BY <1>3, <2>2, <3>2
  <2> QED BY <1>3, <2>1, <2>2
<1>5. PICK anchor : anchor = IF Centres(s, nv) THEN (Viewport - width) \div 2
                             ELSE IF ~nv /\ c = Len(s.columns) THEN Viewport - width ELSE 0
  OBVIOUS
<1>6. anchor \in Int /\ anchor - (Viewport - width) \div 2 \in Int
  BY <1>1, <1>4, <1>5
<1>7. s.columns # <<>> => Start(s, c) \in Int /\ Start(s, Len(s.columns)) \in Int
  <2> SUFFICES ASSUME s.columns # <<>> PROVE Start(s, c) \in Int /\ Start(s, Len(s.columns)) \in Int
    OBVIOUS
  <2>1. c \in 1..(Len(s.columns) + 1) /\ Len(s.columns) \in 1..(Len(s.columns) + 1)
    BY <1>1, <1>2, SelectedColumnIs
  <2> QED BY <2>1, StartsAre
<1>8. Start(s, Len(s.columns) + 1) \in Int
  <2>1. Len(s.columns) + 1 \in 1..(Len(s.columns) + 1)
    BY <1>1
  <2> QED BY <2>1, StartsAre
<1>9. Geometry(s, nv) = GeometryOf(s, c, width, anchor)
  BY <1>2, <1>3, <1>5 DEF Geometry, Anchored
<1> QED BY <1>4, <1>6, <1>7, <1>8, <1>9 DEF GeometryOf, Geometries

LEMMA DivIs == ASSUME NEW a \in Int, NEW b \in Int, b > 0 PROVE a \div b \in Int
  OBVIOUS

LEMMA TimesIs == ASSUME NEW a \in Int, NEW b \in Int PROVE a * b \in Int
  OBVIOUS

LEMMA ClampIs == ASSUME NEW x \in Int, NEW low \in Int, NEW high \in Int PROVE Clamp(x, low, high) \in Int
  BY DEF Clamp

LEMMA SpentIs ==
    ASSUME NEW s \in StripSet, NEW g \in Geometries
    PROVE  Spent(s, g) \in Int
<1>1. /\ g.start \in Int /\ g.width \in Int /\ g.anchor \in Int /\ g.delta \in Int /\ g.end \in Int
      /\ Viewport \in Int /\ s.offset \in Int
  BY StripAssumption DEF Geometries, StripSet
<1>2. PICK i : i = s.intent
  OBVIOUS
<1>3. i \in Intents /\ i.value[1] \in Int /\ i.value[2] \in Int /\ (i.pin = "place" => i.value[2] > 0)
  BY <1>2 DEF StripSet, Intents, Shares
<1>4. i.pin = "place" => PlaceOffset(g, i.value) \in Int
  <2> SUFFICES ASSUME i.pin = "place" PROVE PlaceOffset(g, i.value) \in Int
    OBVIOUS
  <2>1. Viewport - g.width \in Int
    BY <1>1
  <2>2. (Viewport - g.width) * i.value[1] \in Int
    BY <1>3, <2>1, TimesIs
  <2>3. PlaceX(i.value, Viewport - g.width) \in Int
    BY <1>3, <2>2, DivIs DEF PlaceX
  <2> QED BY <1>1, <2>3 DEF PlaceOffset
<1>5. g.anchor + g.start + g.width - i.value[1] \in Int /\ g.start - i.value[1] \in Int /\ g.delta + g.start \in Int
  BY <1>1, <1>3
<1>6. CASE i.kind = "center" \/ i.kind = "align"
  <2>1. ~Pins(s)
    BY <1>2, <1>6 DEF Pins
  <2>2. Spent(s, g) \in {g.delta + g.start, g.start, 0}
    BY <1>2, <1>6, <2>1 DEF Spent
  <2> QED BY <1>1, <1>5, <2>2
<1>7. CASE i.kind # "center" /\ i.kind # "align"
  <2>1. Spent(s, g) \in {g.anchor + g.start + g.width - i.value[1], g.start - i.value[1], s.offset}
        \/ (i.pin = "place" /\ Spent(s, g) = PlaceOffset(g, i.value))
    BY <1>2, <1>7 DEF Spent
  <2> QED BY <1>1, <1>4, <1>5, <2>1
<1> QED BY <1>6, <1>7

LEMMA RevealOffsetIs ==
    ASSUME NEW g \in Geometries, NEW way, NEW x \in Int
    PROVE  RevealOffset(g, way, x) \in Int
<1>1. g.anchor + g.start \in Int /\ g.anchor + g.start + g.width - Viewport \in Int
  BY StripAssumption DEF Geometries
<1>2. RevealOffset(g, way, x) \in {g.anchor + g.start, g.anchor + g.start + g.width - Viewport, x}
  BY DEF RevealOffset
<1> QED BY <1>1, <1>2

LEMMA ResolvedIs ==
    ASSUME NEW s \in StripSet, NEW g \in Geometries
    PROVE  ResolveScroll(s, g, Spent(s, g)) \in Int
<1>1. PICK x : x = IF Located(s) THEN RevealOffset(g, RevealAfter(s), Spent(s, g)) ELSE Spent(s, g)
  OBVIOUS
<1>2. x \in Int
  <2>1. Spent(s, g) \in Int
    BY SpentIs
  <2>2. RevealOffset(g, RevealAfter(s), Spent(s, g)) \in Int
    BY <2>1, RevealOffsetIs
  <2> QED BY <1>1, <2>1, <2>2
<1>3. PICK base : base = IF s.centre # NoWindow THEN g.delta ELSE 0
  OBVIOUS
<1>4. base \in Int /\ g.last + base \in Int
  BY <1>3 DEF Geometries
<1>5. Clamp(x, base, g.last + base) \in Int
  BY <1>2, <1>4, ClampIs
<1> QED BY <1>1, <1>3, <1>5 DEF ResolveScroll, Between

LEMMA PlaceShareIs ==
    ASSUME NEW x \in Int, NEW free \in Int
    PROVE  Part(PlaceShare(x, free)) /\ PlaceShare(x, free) \in Shares
<1>1. CASE free < 1
  <2>1. PlaceShare(x, free) = <<1, 2>>
    BY <1>1 DEF PlaceShare
  <2>2. Part(<<1, 2>>) /\ <<1, 2>> \in Shares
    BY DEF Part, Shares
  <2> QED BY <2>1, <2>2
<1>2. CASE ~(free < 1)
  <2>1. PICK y : y = Clamp(x, 0, free)
    OBVIOUS
  <2>2. y \in Int /\ 0 <= y /\ y <= free
    BY <1>2, <2>1 DEF Clamp
  <2>3. PlaceShare(x, free) = <<y, free>>
    BY <1>2, <2>1 DEF PlaceShare
  <2>4. Part(<<y, free>>) /\ <<y, free>> \in Shares
    BY <1>2, <2>2 DEF Part, Shares
  <2> QED BY <2>3, <2>4
<1> QED BY <1>1, <1>2

Remeasured(s, offset, measured) == [s EXCEPT !.offset = offset, !.intent = Keep, !.measured = measured]
LEMMA MeasuredKeeps ==
    ASSUME NEW s, Good(s), NEW offset \in Int, NEW m \in Measures, Part(m.share),
           NEW t, t = Remeasured(s, offset, m)
    PROVE  Keeps(s, t)
<1>1. Whole(s) /\ s \in StripSet /\ HeldFor(s)
  BY WholeIs, Tame
<1>2. Keep \in Intents
  BY Typed
<1>3. /\ t \in StripSet /\ Kin(s, t) /\ t.measured = m
      /\ t.centre = s.centre /\ t.keptView = s.keptView /\ t.keptPlace = s.keptPlace
  BY <1>1, <1>2 DEF Remeasured, StripSet, Kin
<1>4. Whole(t) /\ Tiled(t) = Tiled(s)
  BY <1>1, <1>3, KinWhole
<1>5. t.selected = s.selected
  BY <1>3 DEF Kin
<1>6. HeldFor(t)
  BY <1>1, <1>3, <1>5 DEF HeldFor
<1>7. Lengths(s) => Lengths(t)
  BY <1>3 DEF Lengths
<1> QED BY <1>4, <1>6, <1>7, WholeIs DEF Keeps

LEMMA Passes ==
    ASSUME NEW s, Good(s), NEW nv \in BOOLEAN, NEW t, t = Pass(s, nv)
    PROVE  Keeps(s, t)
<1>1. Whole(s) /\ s \in StripSet /\ Arranged(s.columns)
  BY WholeIs, Tame
<1>2. PICK g : g = Geometry(s, nv)
  OBVIOUS
<1>3. g \in Geometries
  BY <1>1, <1>2, GeometryIs
<1>4. PICK x : x = ResolveScroll(s, g, Spent(s, g))
  OBVIOUS
<1>5. x \in Int
  BY <1>1, <1>3, <1>4, ResolvedIs
<1>6. PICK m : m = [laid |-> TRUE, selected |-> IF Located(s) THEN s.selected ELSE NoWindow,
                    share |-> PlaceShare(g.anchor + g.start - x, Viewport - g.width),
                    rel |-> g.start - x, slot |-> g.width, delta |-> g.delta]
  OBVIOUS
<1>7. /\ g.anchor + g.start - x \in Int /\ Viewport - g.width \in Int
      /\ g.start - x \in Int /\ g.width \in Int /\ g.delta \in Int
  BY <1>3, <1>5, StripAssumption DEF Geometries
<1>8. Part(m.share) /\ m.share \in Shares
  BY <1>6, <1>7, PlaceShareIs
<1>9. s.selected \in OptWindow /\ NoWindow \in OptWindow
  BY <1>1, Tame, Typed
<1>10. m \in Measures
  BY <1>6, <1>7, <1>8, <1>9 DEF Measures
<1>11. t = Remeasured(s, x, m)
  BY <1>2, <1>4, <1>6 DEF Pass, PassIn, Settled, Remeasured
<1> QED BY <1>5, <1>8, <1>10, <1>11, MeasuredKeeps

LEMMA NearestIs ==
    ASSUME NEW n \in Nat \ {0}, NEW far, \A c \in 1..n : far[c] \in Nat
    PROVE  \E c \in 1..n : \A d \in 1..n : far[c] < far[d] \/ (far[c] = far[d] /\ c <= d)
<1>1. PICK S : S = {far[c] : c \in 1..n}
  OBVIOUS
<1>2. PICK x \in S : \A y \in S : x <= y
  <2>1. S \subseteq Nat /\ far[1] \in S
    BY <1>1
  <2> QED BY <2>1, LeastIn
<1>3. PICK C : C = {c \in 1..n : far[c] = x}
  OBVIOUS
<1>4. PICK c \in C : \A d \in C : c <= d
  <2>1. C \subseteq Nat /\ C # {}
    BY <1>1, <1>2, <1>3
  <2> QED BY <2>1, LeastIn
<1>5. c \in 1..n /\ far[c] = x
  BY <1>3, <1>4
<1>6. ASSUME NEW d \in 1..n PROVE far[c] < far[d] \/ (far[c] = far[d] /\ c <= d)
  <2>1. x <= far[d] /\ x \in Nat /\ far[d] \in Nat
    BY <1>1, <1>2, <1>5
  <2>2. far[d] = x => c <= d
    BY <1>3, <1>4
  <2> QED BY <1>5, <2>1, <2>2
<1> QED BY <1>5, <1>6

Offset(s, x) == [s EXCEPT !.offset = x]
LEMMA OffsetKeeps ==
    ASSUME NEW s, Good(s), NEW x \in Int, NEW t, t = Offset(Unpin(s), x)
    PROVE  Keeps(s, t)
<1>1. Whole(s) /\ s \in StripSet /\ HeldFor(s)
  BY WholeIs, Tame
<1>2. PICK u : u = Unpin(s)
  OBVIOUS
<1>3. /\ u \in StripSet /\ Kin(s, u) /\ u.centre = s.centre
      /\ u.keptView = NoView /\ u.keptPlace = NoPlace
      /\ u.measured = [s.measured EXCEPT !.share = NoShare]
  BY <1>1, <1>2, UnpinIs
<1>4. u.measured.share = NoShare
  <2>1. s.measured \in Measures
    BY <1>1 DEF StripSet
  <2> QED BY <1>3, <2>1 DEF Measures
<1>5. /\ t \in StripSet /\ Kin(s, t) /\ t.centre = s.centre
      /\ t.keptView = NoView /\ t.keptPlace = NoPlace /\ t.measured = u.measured
  BY <1>2, <1>3 DEF Offset, StripSet, Kin
<1>6. Whole(t) /\ Tiled(t) = Tiled(s)
  BY <1>1, <1>5, KinWhole
<1>7. t.selected = s.selected /\ NoView.window = NoWindow /\ NoPlace.window = NoWindow
  BY <1>5, Typed DEF Kin
<1>8. HeldFor(t)
  BY <1>1, <1>5, <1>7 DEF HeldFor
<1>9. Lengths(t)
  BY <1>4, <1>5, <1>7 DEF Lengths
<1> QED BY <1>6, <1>8, <1>9, WholeIs DEF Keeps

LEMMA Snaps ==
    ASSUME NEW s, Good(s), NEW t, t = Snap(s)
    PROVE  Keeps(s, t)
<1>1. Whole(s) /\ s \in StripSet /\ Arranged(s.columns)
  BY WholeIs, Tame
<1>2. CASE ~s.measured.laid \/ s.columns = <<>>
  BY <1>2, Itself DEF Snap
<1>3. CASE s.measured.laid /\ s.columns # <<>>
  <2>1. PICK n : n = Len(s.columns)
    OBVIOUS
  <2>2. n \in Nat \ {0} /\ DOMAIN s.columns = 1..n /\ s.offset \in Int /\ s.measured.delta \in Int
    BY <1>1, <1>3, <2>1 DEF StripSet, Measures
  <2>3. PICK base : base = IF s.centre # NoWindow THEN s.measured.delta ELSE 0
    OBVIOUS
  <2>4. base \in Int
    BY <2>2, <2>3
  <2> DEFINE Far(c) == LET d == Start(s, c) - (s.offset - base) IN IF d < 0 THEN -d ELSE d
  <2>5. PICK far : far = [c \in 1..n |-> Far(c)]
    OBVIOUS
  <2>6. ASSUME NEW c \in 1..n PROVE Start(s, c) \in Int /\ far[c] = Far(c) /\ far[c] \in Nat
    <3>1. c \in 1..(Len(s.columns) + 1)
      BY <2>1, <2>2
    <3>2. Start(s, c) \in Int
      BY <1>1, <3>1, StartsAre
    <3> QED BY <2>2, <2>4, <2>5, <3>2
  <2>7. \E c \in 1..n : \A d \in 1..n : far[c] < far[d] \/ (far[c] = far[d] /\ c <= d)
    BY <2>2, <2>6, NearestIs
  <2>8. PICK near : near = CHOOSE c \in DOMAIN s.columns :
                                  \A d \in DOMAIN s.columns : Far(c) < Far(d) \/ (Far(c) = Far(d) /\ c <= d)
    OBVIOUS
  <2>9. near \in 1..n
    <3>1. \E c \in 1..n : \A d \in 1..n : Far(c) < Far(d) \/ (Far(c) = Far(d) /\ c <= d)
      <4> HIDE DEF Far
      <4> QED BY <2>6, <2>7
    <3> HIDE DEF Far
    <3> QED BY <2>2, <2>8, <3>1
  <2>10. PICK x : x = Between(Start(s, near) + base, base, Start(s, Len(s.columns)))
    OBVIOUS
  <2>11. x \in Int
    <3>1. Start(s, near) \in Int /\ Start(s, Len(s.columns)) \in Int
      <4>1. n \in 1..n
        BY <2>2
      <4> QED BY <2>1, <2>6, <2>9, <4>1
    <3> QED BY <2>4, <2>10, <3>1, ClampIs DEF Between
  <2>12. t = Offset(Unpin(s), x)
    BY <1>3, <2>3, <2>8, <2>10 DEF Snap, Offset
  <2> QED BY <2>11, <2>12, OffsetKeeps
<1> QED BY <1>2, <1>3

-----------------------------------------------------------------------------
(* A window's report of its own frame.                                     *)

Intended(s, intent) == [s EXCEPT !.intent = intent]
LEMMA IntentKeeps ==
    ASSUME NEW s, NEW u, Keeps(s, u), NEW intent \in Intents, NEW t, t = Intended(u, intent)
    PROVE  Keeps(s, t)
<1>1. Good(u) /\ Tiled(u) = Tiled(s) /\ (Lengths(s) => Lengths(u))
  BY DEF Keeps
<1>2. Whole(u) /\ u \in StripSet /\ HeldFor(u)
  BY <1>1, WholeIs, Tame
<1>3. /\ t \in StripSet /\ Kin(u, t) /\ t.measured = u.measured
      /\ t.centre = u.centre /\ t.keptView = u.keptView /\ t.keptPlace = u.keptPlace
  BY <1>2 DEF Intended, StripSet, Kin
<1>4. Whole(t) /\ Tiled(t) = Tiled(u)
  BY <1>2, <1>3, KinWhole
<1>5. t.selected = u.selected
  BY <1>3 DEF Kin
<1>6. HeldFor(t) /\ (Lengths(u) => Lengths(t))
  BY <1>2, <1>3, <1>5 DEF HeldFor, Lengths
<1> QED BY <1>1, <1>4, <1>6, WholeIs DEF Keeps

LEMMA ChangesKeep ==
    ASSUME NEW s, NEW u, Keeps(s, u), NEW t, Changes(u, t)
    PROVE  Keeps(s, t)
<1>1. HeldFor(u)
  BY WholeIs DEF Keeps
<1>2. Good(t)
  BY <1>1, WholeIs DEF Changes
<1> QED BY <1>2 DEF Keeps, Changes

LEMMA FrameReported ==
    ASSUME NEW s, Good(s), NEW w, NEW edge, NEW from, from.x \in Int, from.width \in Int, NEW width \in Int,
           NEW height, NEW nv \in BOOLEAN, NEW t, t = ResizeWindow(s, w, edge, from, width, height, nv)
    PROVE  Keeps(s, t)
<1>1. Whole(s) /\ s \in StripSet /\ Arranged(s.columns) /\ s.ratio \in Int
  BY WholeIs, Tame
<1>2. CASE t = s
  BY <1>2, Itself
<1>3. CASE t # s
  <2>1. OnStrip(s, w)
    BY <1>3 DEF ResizeWindow
  <2>2. PICK c : c = ColumnOf(s, w)
    OBVIOUS
  <2>3. c \in DOMAIN s.columns /\ w \in Windows
    BY <1>1, <2>1, <2>2, WhereIs
  <2>4. PICK shown : shown = Show(s, nv)
    OBVIOUS
  <2>5. Keeps(s, shown) /\ shown.columns = s.columns /\ shown.ratio = s.ratio
    <3>1. Shown(s, shown, nv)
      BY <1>1, <2>4, ShowShows
    <3>2. Keeps(s, shown)
      BY <1>1, <3>1, ThenShown
    <3> QED BY <3>1, <3>2 DEF Shown, Kin
  <2>6. Whole(shown) /\ w \in Tiled(shown)
    <3>1. w \in Tiled(s)
      BY <1>1, <2>1, TiledIs
    <3> QED BY <2>5, <3>1, WholeIs DEF Keeps
  <2>7. PICK narrow : narrow = Rewidthed(shown, c, Given("unbounded", from.width - s.ratio))
    OBVIOUS
  <2>8. Changes(shown, narrow)
    <3>1. from.width - s.ratio \in Int
      BY <1>1
    <3>2. Given("unbounded", from.width - s.ratio) \in WidthSet
      BY <3>1, GivenIs
    <3>3. c \in DOMAIN shown.columns
      BY <2>3, <2>5
    <3> QED BY <2>6, <2>7, <3>2, <3>3, WidthGiven
  <2>9. PICK across : across = EnterFullWidth(narrow, w)
    OBVIOUS
  <2>10. Keeps(s, across)
    <3>1. Keeps(s, narrow)
      BY <2>5, <2>8, ChangesKeep
    <3>2. Whole(narrow) /\ w \in Tiled(narrow)
      BY <2>6, <2>8 DEF Changes
    <3>3. Changes(narrow, across)
      BY <2>9, <3>2, Entered
    <3> QED BY <3>1, <3>3, ChangesKeep
  <2>11. PICK wide : wide = IF edge # "none" /\ Centres(shown, nv)
                            THEN from.width + 2 * (width - from.width) ELSE width
    OBVIOUS
  <2>12. PICK given : given = IF edge \in {"left", "right"} \/ s.columns[c].width.kind = "unbounded"
                              THEN "unbounded" ELSE "bounded"
    OBVIOUS
  <2>13. PICK resized : resized = SetColumnWidth(shown, w, given, Bounded(given, wide))
    OBVIOUS
  <2>14. Keeps(s, resized)
    <3>1. wide \in Int /\ given \in {"full", "bounded", "unbounded"}
      BY <2>11, <2>12
    <3>2. Bounded(given, wide) \in Int
      BY <3>1, BoundedIs
    <3>3. Changes(shown, resized)
      BY <2>6, <2>13, <3>2, ColumnWidthSet
    <3> QED BY <2>5, <3>3, ChangesKeep
  <2>15. PICK taken : /\ taken \in {shown, across, resized}
                      /\ t = IF edge = "left" /\ nv
                             THEN Intended(taken, Pin(w, "rightEdge", <<from.x + from.width, 1>>,
                                      IF taken.intent.kind = "reveal" THEN taken.intent.reveal ELSE "none"))
                             ELSE taken
    BY <1>3, <2>1, <2>2, <2>4, <2>7, <2>9, <2>11, <2>12, <2>13 DEF ResizeWindow, Rewidthed, Intended
  <2>16. Keeps(s, taken)
    BY <2>5, <2>10, <2>14, <2>15
  <2>17. taken.intent \in Intents /\ taken.intent.reveal \in Ways
    <3>1. taken \in StripSet
      BY <2>16 DEF Keeps, Good
    <3> QED BY <3>1 DEF StripSet, Intents
  <2>18. ASSUME NEW way \in Ways PROVE Pin(w, "rightEdge", <<from.x + from.width, 1>>, way) \in Intents
    <3>1. <<from.x + from.width, 1>> \in Shares
      BY DEF Shares
    <3> QED BY <2>3, <3>1 DEF Pin, Intents, Kinds, Pinned, OptWindow
  <2>19. Keeps(s, Intended(taken, Pin(w, "rightEdge", <<from.x + from.width, 1>>,
                                      IF taken.intent.kind = "reveal" THEN taken.intent.reveal ELSE "none")))
    <3>1. (IF taken.intent.kind = "reveal" THEN taken.intent.reveal ELSE "none") \in Ways
      BY <2>17, WishTypes
    <3>2. Pin(w, "rightEdge", <<from.x + from.width, 1>>,
              IF taken.intent.kind = "reveal" THEN taken.intent.reveal ELSE "none") \in Intents
      BY <2>18, <3>1
    <3> QED BY <2>16, <3>2, IntentKeeps
  <2> QED BY <2>15, <2>16, <2>19
<1> QED BY <1>2, <1>3

-----------------------------------------------------------------------------
(* The strips of the display.                                              *)

Inhabited(homes, afloat, ws) == {w \in Windows : homes[w] = ws} \ afloat

LEMMA StripsMade ==
    ASSUME NEW ss, NEW homes, NEW afloat, NEW made, ss = [ws \in Spaces |-> made[ws]],
           \A ws \in Spaces : Good(made[ws]) /\ Lengths(made[ws]) /\ Tiled(made[ws]) = Inhabited(homes, afloat, ws)
    PROVE  StripsAre(ss, homes, afloat)
<1>1. \A ws \in Spaces : made[ws] \in StripSet /\ ss[ws] = made[ws]
  BY DEF Good
<1>2. ss \in [Spaces -> StripSet]
  BY <1>1
<1> QED BY <1>1, <1>2 DEF StripsAre, Inhabited

LEMMA OneMade ==
    ASSUME NEW ss, NEW homes, NEW afloat, StripsAre(ss, homes, afloat), NEW ws \in Spaces,
           NEW x, Good(x), Lengths(x), NEW newHomes, NEW newAfloat, Tiled(x) = Inhabited(newHomes, newAfloat, ws),
           \A v \in Spaces : v # ws => Inhabited(newHomes, newAfloat, v) = Inhabited(homes, afloat, v),
           NEW t, t = [ss EXCEPT ![ws] = x]
    PROVE  StripsAre(t, newHomes, newAfloat)
<1>1. x \in StripSet /\ ss \in [Spaces -> StripSet]
  BY DEF Good, StripsAre
<1>2. t \in [Spaces -> StripSet] /\ t[ws] = x /\ \A v \in Spaces : v # ws => t[v] = ss[v]
  BY <1>1
<1>3. \A v \in Spaces : v # ws =>
          Good(t[v]) /\ Lengths(t[v]) /\ Tiled(t[v]) = Inhabited(newHomes, newAfloat, v)
  BY <1>2 DEF StripsAre, Inhabited
<1> QED BY <1>2, <1>3 DEF StripsAre, Inhabited

LEMMA OneKept ==
    ASSUME NEW ss, NEW homes, NEW afloat, StripsAre(ss, homes, afloat), NEW ws \in Spaces,
           NEW x, Keeps(ss[ws], x), NEW t, t = [ss EXCEPT ![ws] = x]
    PROVE  StripsAre(t, homes, afloat)
<1>1. Good(ss[ws]) /\ Lengths(ss[ws]) /\ Tiled(ss[ws]) = Inhabited(homes, afloat, ws)
  BY DEF StripsAre, Inhabited
<1>2. Good(x) /\ Lengths(x) /\ Tiled(x) = Inhabited(homes, afloat, ws)
  BY <1>1 DEF Keeps
<1> QED BY <1>2, OneMade

LEMMA NeverIs == ASSUME scene \in Scenarios PROVE never \in BOOLEAN
  BY WorkspacesAssumption DEF never

LEMMA AllPassed ==
    ASSUME NEW ss, NEW homes, NEW afloat, StripsAre(ss, homes, afloat), NEW ws \in Spaces, scene \in Scenarios,
           NEW t, t = [ss EXCEPT ![ws] = Pass(@, never)] \/ t = PassedOver(ss, ws)
    PROVE  StripsAre(t, homes, afloat)
<1>1. CASE t = ss
  BY <1>1
<1>2. CASE t # ss
  <2>1. t = [ss EXCEPT ![ws] = Pass(ss[ws], never)]
    BY <1>2 DEF PassedOver
  <2>2. Good(ss[ws])
    BY DEF StripsAre
  <2>3. Keeps(ss[ws], Pass(ss[ws], never))
    BY <2>2, NeverIs, Passes
  <2> QED BY <2>1, <2>3, OneKept
<1> QED BY <1>1, <1>2

LEMMA StripIs ==
    ASSUME Inv
    PROVE  /\ active \in Spaces /\ scene \in Scenarios /\ never \in BOOLEAN
           /\ strip = strips[active] /\ Good(strip) /\ Lengths(strip)
           /\ Tiled(strip) = Inhabited(home, floating, active)
           /\ Whole(strip) /\ strip \in StripSet /\ Arranged(strip.columns)
<1>1. active \in Spaces /\ scene \in Scenarios
  BY DEF Inv, WindowsInv
<1>2. strip = strips[active] /\ Good(strip) /\ Lengths(strip) /\ Tiled(strip) = Inhabited(home, floating, active)
  BY <1>1 DEF Inv, StripsInv, StripsAre, Inhabited, strip
<1>3. Whole(strip) /\ strip \in StripSet /\ Arranged(strip.columns)
  BY <1>2, WholeIs, Tame
<1> QED BY <1>1, <1>2, <1>3, NeverIs

LEMMA LaidOut ==
    ASSUME Inv, NEW x, Keeps(strip, x), LaysOut(x) \/ LaysOutFreed(x), home' = home, floating' = floating
    PROVE  StripsInv'
<1>1. active \in Spaces /\ never \in BOOLEAN /\ strip = strips[active] /\ StripsAre(strips, home, floating)
  BY StripIs DEF Inv, StripsInv
<1>2. PICK y : y \in {x, Pass(x, never)} /\ strips' = [strips EXCEPT ![active] = y]
  BY DEF LaysOut, LaysOutFreed
<1>3. Keeps(strip, y)
  <2>1. Good(x)
    BY DEF Keeps
  <2>2. Keeps(x, Pass(x, never))
    BY <1>1, <2>1, Passes
  <2>3. Keeps(strip, Pass(x, never))
    BY <2>2, KeepsBoth
  <2> QED BY <1>2, <2>3
<1>4. StripsAre(strips', home, floating)
  BY <1>1, <1>2, <1>3, OneKept
<1> QED BY <1>4 DEF StripsInv

LEMMA AllRemoved ==
    ASSUME NEW ss, NEW homes, NEW afloat, StripsAre(ss, homes, afloat), NEW w \in Windows,
           NEW t, t = [ws \in Spaces |-> RemoveWindow(ss[ws], w)]
    PROVE  StripsAre(t, homes, afloat \cup {w})
<1>1. ASSUME NEW ws \in Spaces
      PROVE  Good(t[ws]) /\ Lengths(t[ws]) /\ Tiled(t[ws]) = Inhabited(homes, afloat \cup {w}, ws)
  <2>1. Good(ss[ws]) /\ Lengths(ss[ws]) /\ Tiled(ss[ws]) = Inhabited(homes, afloat, ws)
    BY DEF StripsAre, Inhabited
  <2>2. Good(t[ws]) /\ Lengths(t[ws]) /\ Tiled(t[ws]) = Tiled(ss[ws]) \ {w}
    BY <2>1, Removed
  <2>3. Inhabited(homes, afloat \cup {w}, ws) = Inhabited(homes, afloat, ws) \ {w}
    BY DEF Inhabited
  <2> QED BY <2>1, <2>2, <2>3
<1>2. t = [ws \in Spaces |-> t[ws]]
  OBVIOUS
<1> QED BY <1>1, <1>2, StripsMade

LEMMA WidthPut ==
    ASSUME NEW s, Good(s), NEW w \in Windows, w \notin Tiled(s), NEW width \in WidthSet,
           NEW nv \in BOOLEAN, NEW t, t = WithWidth(Insert(s, w, nv), w, width)
    PROVE  Good(t) /\ Lengths(t) /\ Tiled(t) = Tiled(s) \cup {w}
<1>1. PICK u : u = Insert(s, w, nv)
  OBVIOUS
<1>2. Whole(s)
  BY WholeIs
<1>3. Good(u) /\ Tiled(u) = Tiled(s) \cup {w} /\ Lengths(u)
  BY <1>1, <1>2, Inserted
<1>4. Whole(u) /\ HeldFor(u)
  BY <1>3, WholeIs
<1>5. Changes(u, t)
  BY <1>1, <1>4, CarriedSet
<1>6. Whole(t) /\ HeldFor(t) /\ Tiled(t) = Tiled(u) /\ Lengths(t)
  BY <1>3, <1>4, <1>5 DEF Changes
<1> QED BY <1>3, <1>6, WholeIs

-----------------------------------------------------------------------------
(* The first strips.                                                       *)

LEMMA NewStripIs == NewStrip \in StripSet /\ NewStrip.columns = <<>> /\ HeldFor(NewStrip) /\ Lengths(NewStrip)
                    /\ NewStrip.fullWidth = {} /\ NewStrip.selected = NoWindow
                    /\ NewStrip.widthOrigins = [w \in Windows |-> NoOrigin]
                    /\ NewStrip.foldOrigins = [w \in Windows |-> NoOrigin]
<1>1. DefaultWidth \in Int
  BY StripAssumption
<1>2. Unmeasured \in Measures /\ Unmeasured.share = NoShare
  BY DEF Unmeasured, Measures, OptWindow, Shares, NoShare
<1>3. [w \in Windows |-> NoOrigin] \in Origins
  BY NoOriginIs DEF Origins
<1>4. <<>> \in Seq(ColumnSet)
  OBVIOUS
<1>5. NewStrip \in StripSet
  BY <1>1, <1>2, <1>3, <1>4, Typed DEF NewStrip, StripSet
<1>6. HeldFor(NewStrip)
  BY Typed DEF NewStrip, HeldFor
<1>7. Lengths(NewStrip)
  BY <1>2, Typed DEF NewStrip, Lengths
<1> QED BY <1>5, <1>6, <1>7 DEF NewStrip

LEMMA NewlyWhole ==
    ASSUME NEW s \in StripSet, Arranged(s.columns), HeldFor(s), s.fullWidth = {},
           s.widthOrigins = [w \in Windows |-> NoOrigin], s.foldOrigins = [w \in Windows |-> NoOrigin],
           s.selected \in Tiled(s) \/ (Tiled(s) = {} /\ s.selected = NoWindow)
    PROVE  Good(s)
<1>1. Fits(s, s.widthOrigins) /\ Fits(s, s.foldOrigins) /\ FullOnly(s)
  BY DEF Fits, FullOnly
<1>2. Whole(s)
  BY <1>1 DEF Whole
<1> QED BY <1>2, WholeIs

LEMMA NewStripGood == Good(NewStrip) /\ Lengths(NewStrip) /\ Tiled(NewStrip) = {}
<1>1. Arranged(NewStrip.columns)
  BY NewStripIs DEF Arranged, Once
<1>2. Tiled(NewStrip) = {}
  BY NewStripIs, <1>1, Bare
<1> QED BY <1>1, <1>2, NewStripIs, NewlyWhole

FirstOf(columns) == IF columns = <<>> THEN NoWindow ELSE columns[1][1]
Started(columns, first) ==
    [NewStrip EXCEPT !.columns = [c \in DOMAIN columns |-> [windows |-> columns[c], width |-> Unset]],
                     !.selected = first]

LEMMA StartedGood ==
    ASSUME NEW columns \in Seq(Seq(Windows) \ {<<>>}),
           \A c, d \in DOMAIN columns : \A i \in DOMAIN columns[c], j \in DOMAIN columns[d] :
               columns[c][i] = columns[d][j] => c = d /\ i = j,
           NEW s, s = Started(columns, FirstOf(columns))
    PROVE  Good(s)
<1>1. PICK new : new = [c \in DOMAIN columns |-> [windows |-> columns[c], width |-> Unset]]
  OBVIOUS
<1>2. PICK n : n = Len(columns)
  OBVIOUS
<1>3. n \in Nat /\ DOMAIN columns = 1..n
  BY <1>2
<1>4. Unset \in WidthSet
  BY DEF Unset, WidthSet
<1>5. ASSUME NEW c \in 1..n
      PROVE  new[c].windows = columns[c] /\ new[c] \in ColumnSet
  <2>1. new[c] = [windows |-> columns[c], width |-> Unset] /\ columns[c] \in Seq(Windows) \ {<<>>}
    BY <1>1, <1>3
  <2> QED BY <1>4, <2>1 DEF ColumnSet
<1>6. new \in Seq(ColumnSet) /\ Len(new) = n
  <2>1. DOMAIN new = 1..n /\ new = [c \in DOMAIN new |-> new[c]] /\ \A c \in 1..n : new[c] \in ColumnSet
    BY <1>1, <1>3, <1>5
  <2> QED BY <1>3, <2>1, ListIs
<1>7. Once(new)
  BY <1>3, <1>5, <1>6 DEF Once
<1>8. Arranged(new)
  BY <1>6, <1>7 DEF Arranged
<1>9. FirstOf(columns) \in OptWindow
  <2>1. CASE columns = <<>>
    BY <2>1 DEF FirstOf, OptWindow
  <2>2. CASE columns # <<>>
    <3>1. columns[1] \in Seq(Windows) \ {<<>>}
      BY <2>2
    <3>2. columns[1][1] \in Windows
      BY <3>1
    <3> QED BY <2>2, <3>2 DEF FirstOf, OptWindow
  <2> QED BY <2>1, <2>2
<1>10. /\ s \in StripSet /\ s.columns = new /\ s.selected = FirstOf(columns)
       /\ s.centre = NewStrip.centre /\ s.keptView = NewStrip.keptView /\ s.keptPlace = NewStrip.keptPlace
       /\ s.fullWidth = {} /\ s.widthOrigins = [w \in Windows |-> NoOrigin]
       /\ s.foldOrigins = [w \in Windows |-> NoOrigin]
  BY <1>1, <1>6, <1>9, NewStripIs DEF Started, StripSet
<1>11. HeldFor(s)
  BY <1>10, NewStripIs DEF HeldFor
<1>12. s.selected \in Tiled(s) \/ (Tiled(s) = {} /\ s.selected = NoWindow)
  <2>1. CASE columns = <<>>
    <3>1. s.columns = <<>>
      BY <1>1, <1>6, <1>10, <2>1
    <3>2. Tiled(s) = {}
      BY <1>8, <1>10, <3>1, Bare
    <3> QED BY <1>10, <2>1, <3>2 DEF FirstOf
  <2>2. CASE columns # <<>>
    <3>1. 1 \in 1..n /\ columns[1] \in Seq(Windows) \ {<<>>}
      BY <1>2, <2>2
    <3>2. 1 \in DOMAIN columns[1]
      BY <3>1
    <3>3. 1 \in DOMAIN s.columns /\ 1 \in DOMAIN s.columns[1].windows /\ s.columns[1].windows[1] = columns[1][1]
      BY <1>5, <1>6, <1>10, <3>1, <3>2
    <3>4. s.columns[1].windows[1] \in Tiled(s)
      BY <1>8, <1>10, <3>3, Rowed
    <3> QED BY <1>10, <2>2, <3>3, <3>4 DEF FirstOf
  <2> QED BY <2>1, <2>2
<1> QED BY <1>8, <1>10, <1>11, <1>12, NewlyWhole

LEMMA StartedLengths == ASSUME NEW columns, NEW s, s = Started(columns, FirstOf(columns)) PROVE Lengths(s)
<1>1. s.measured = NewStrip.measured /\ s.keptPlace = NewStrip.keptPlace
  BY NewStripIs DEF Started, StripSet
<1> QED BY <1>1, NewStripIs DEF Lengths

(* The program starts sound.                                               *)
LEMMA Initially == Init => Inv
<1> SUFFICES ASSUME Init PROVE Inv
  OBVIOUS
<1>1. PICK sc \in Scenarios :
          LET ws    == CHOOSE ws \in Spaces : TRUE
              first == IF sc.columns = <<>> THEN NoWindow ELSE sc.columns[1][1]
              start == [NewStrip EXCEPT
                          !.columns = [c \in DOMAIN sc.columns |-> [windows |-> sc.columns[c], width |-> Unset]],
                          !.selected = first]
          IN  /\ scene = sc /\ budget = sc.budget
              /\ active = ws
              /\ strips = [v \in Spaces |-> IF v = ws THEN Pass(start, sc.never) ELSE NewStrip]
              /\ home = [w \in Windows |-> IF OnStrip(start, w) THEN ws ELSE Unopened]
              /\ floating = {} /\ lastFloat = NoWindow
              /\ focused = first /\ asked = first /\ lastFocus = [v \in Spaces |-> IF v = ws THEN first ELSE NoWindow]
              /\ memory = [w \in Windows |-> Unset]
              /\ drag = NoDrag /\ run = NoRun /\ shows = TRUE
  BY ONLY Init DEF Init
<1> DEFINE ws == CHOOSE w \in Spaces : TRUE
           first == IF sc.columns = <<>> THEN NoWindow ELSE sc.columns[1][1]
           start == [NewStrip EXCEPT
                        !.columns = [c \in DOMAIN sc.columns |-> [windows |-> sc.columns[c], width |-> Unset]],
                        !.selected = first]
<1>2. ws \in Spaces
  BY WorkspacesAssumption
<1>3. /\ scene = sc /\ active = ws
      /\ strips = [v \in Spaces |-> IF v = ws THEN Pass(start, sc.never) ELSE NewStrip]
      /\ home = [w \in Windows |-> IF OnStrip(start, w) THEN ws ELSE Unopened]
      /\ floating = {} /\ lastFloat = NoWindow
      /\ focused = first
      /\ memory = [w \in Windows |-> Unset]
      /\ drag = NoDrag
  BY ONLY <1>1
<1>4. first = FirstOf(sc.columns)
  BY DEF FirstOf
<1>5. start = Started(sc.columns, FirstOf(sc.columns))
  BY DEF Started, FirstOf
<1> HIDE DEF ws, first, start
<1>6. Good(start) /\ Lengths(start) /\ sc.never \in BOOLEAN
  <2>1. /\ sc.columns \in Seq(Seq(Windows) \ {<<>>})
        /\ \A c, d \in DOMAIN sc.columns : \A i \in DOMAIN sc.columns[c], j \in DOMAIN sc.columns[d] :
               sc.columns[c][i] = sc.columns[d][j] => c = d /\ i = j
        /\ sc.never \in BOOLEAN
    BY WorkspacesAssumption
  <2>2. Good(start)
    BY <1>4, <1>5, <2>1, StartedGood
  <2>3. Lengths(start)
    BY <1>4, <1>5, StartedLengths
  <2> QED BY <2>1, <2>2, <2>3
<1>7. PICK shown : shown = Pass(start, sc.never)
  OBVIOUS
<1>8. Good(shown) /\ Lengths(shown) /\ Tiled(shown) = Tiled(start)
  BY <1>6, <1>7, Passes DEF Keeps
<1>9. /\ home = [w \in Windows |-> IF OnStrip(start, w) THEN ws ELSE Unopened]
      /\ floating = {} /\ focused = first /\ start.selected = first
  <2>1. start.selected = first
    <3>1. Started(sc.columns, FirstOf(sc.columns)).selected = FirstOf(sc.columns)
      BY NewStripIs DEF Started, StripSet
    <3> QED BY <1>4, <1>5, <3>1
  <2> QED BY <1>3, <2>1
<1>10. Unopened \notin Spaces /\ ws # Unopened
  BY <1>2, WorkspacesAssumption
<1>11. \A w \in Windows : (home[w] = ws <=> w \in Tiled(start)) /\ (home[w] # ws => home[w] = Unopened)
  BY <1>9, <1>10 DEF Tiled
<1>12. StripsInv
  <2>1. ASSUME NEW v \in Spaces
        PROVE  Good(strips[v]) /\ Lengths(strips[v]) /\ Tiled(strips[v]) = Inhabited(home, floating, v)
    <3>1. CASE v = ws
      <4>1. strips[v] = shown
        BY <1>3, <1>7, <3>1
      <4>2. Inhabited(home, floating, v) = Tiled(start)
        BY <1>9, <1>11, <3>1 DEF Inhabited, Tiled
      <4> QED BY <1>8, <4>1, <4>2
    <3>2. CASE v # ws
      <4>1. strips[v] = NewStrip
        BY <1>3, <3>2
      <4>2. Inhabited(home, floating, v) = {}
        BY <1>10, <1>11, <3>2 DEF Inhabited
      <4> QED BY <4>1, <4>2, NewStripGood
    <3> QED BY <3>1, <3>2
  <2>2. strips = [v \in Spaces |-> strips[v]]
    BY <1>3
  <2> QED BY <2>1, <2>2, StripsMade DEF StripsInv
<1>13. WindowsInv
  <2>1. home \in [Windows -> Spaces \cup {Unopened, Gone}]
    BY <1>2, <1>9
  <2>2. focused \in Open \cup {NoWindow}
    <3>1. first \in Tiled(start) \/ first = NoWindow
      BY <1>6, <1>9, WholeIs DEF Whole
    <3>2. Tiled(start) \subseteq Open
      BY <1>2, <1>11 DEF Open, Tiled
    <3> QED BY <1>9, <3>1, <3>2
  <2>3. memory \in [Windows -> WidthSet]
    <3>1. Unset \in WidthSet
      BY DEF Unset, WidthSet
    <3> QED BY <1>3, <3>1
  <2>4. ~Holding
    BY <1>3 DEF Holding
  <2>5. active \in Spaces /\ scene \in Scenarios /\ floating \subseteq Open /\ lastFloat \in floating \cup {NoWindow}
    BY <1>2, <1>3
  <2> QED BY <2>1, <2>2, <2>3, <2>4, <2>5 DEF WindowsInv
<1> QED BY <1>12, <1>13 DEF Inv

-----------------------------------------------------------------------------
(* The steps that leave every window where it lives.                       *)

LEMMA Tenants ==
    ASSUME Inv
    PROVE  /\ Tiled(strip) \subseteq Open /\ floating \subseteq Open
           /\ strip.selected \in Tiled(strip) \cup {NoWindow}
           /\ SelectedOrFirst(strip) = strip.selected
           /\ \A w : OnStrip(strip, w) <=> w \in Tiled(strip)
           /\ focused \in Open \cup {NoWindow} /\ lastFloat \in floating \cup {NoWindow}
<1>1. Tiled(strip) = Inhabited(home, floating, active) /\ active \in Spaces /\ Whole(strip) /\ Arranged(strip.columns)
  BY StripIs
<1>2. Tiled(strip) \subseteq Open
  BY <1>1 DEF Inhabited, Open
<1>3. strip.selected \in Tiled(strip) \cup {NoWindow}
  BY <1>1 DEF Whole
<1>4. SelectedOrFirst(strip) = strip.selected
  BY <1>1, FirstIs
<1>5. \A w : OnStrip(strip, w) <=> w \in Tiled(strip)
  BY <1>1, TiledIs
<1>6. floating \subseteq Open /\ focused \in Open \cup {NoWindow} /\ lastFloat \in floating \cup {NoWindow}
  BY DEF Inv, WindowsInv
<1> QED BY <1>2, <1>3, <1>4, <1>5, <1>6

LEMMA WindowsHold ==
    ASSUME Inv, active' \in Spaces, scene' = scene, home' = home, floating' = floating,
           memory' \in [Windows -> WidthSet], drag' = drag \/ drag' = NoDrag,
           focused' \in Open \cup {NoWindow}, lastFloat' \in floating \cup {NoWindow}
    PROVE  WindowsInv'
<1>1. WindowsInv
  BY DEF Inv
<1>2. Open' = Open
  BY DEF Open
<1>3. Holding' => drag'.x \in Int /\ drag'.width \in Int
  <2>1. Holding' => Holding /\ drag' = drag
    BY DEF Holding
  <2> QED BY <1>1, <2>1 DEF WindowsInv
<1> QED BY <1>1, <1>2, <1>3 DEF WindowsInv

LEMMA StripsHold ==
    ASSUME Inv, strips' = strips, home' = home, floating' = floating
    PROVE  StripsInv'
  BY DEF Inv, StripsInv

LEMMA WindowFocused ==
    ASSUME Inv, NEW w, Focuses(w), active' = active, scene' = scene, home' = home, floating' = floating,
           memory' = memory, drag' = drag
    PROVE  Inv'
<1>1. /\ Tiled(strip) \subseteq Open /\ floating \subseteq Open /\ (OnStrip(strip, w) => w \in Tiled(strip))
      /\ lastFloat \in floating \cup {NoWindow}
  BY Tenants
<1>2. active \in Spaces /\ never \in BOOLEAN /\ Good(strip) /\ memory \in [Windows -> WidthSet]
  BY StripIs DEF Inv, WindowsInv
<1>3. focused' = w
  BY DEF Focuses
<1>4. CASE w \in floating
  <2>1. lastFloat' = w /\ strips' = strips
    BY <1>4 DEF Focuses
  <2>2. WindowsInv'
    BY <1>1, <1>2, <1>3, <1>4, <2>1, WindowsHold
  <2> QED BY <2>1, <2>2, StripsHold DEF Inv
<1>5. CASE w \notin floating
  <2>1. OnStrip(strip, w) /\ LaysOut(Select(strip, w, never)) /\ lastFloat' = lastFloat
    BY <1>5 DEF Focuses
  <2>2. WindowsInv'
    BY <1>1, <1>2, <1>3, <2>1, WindowsHold
  <2>3. Keeps(strip, Select(strip, w, never))
    BY <1>2, Selects
  <2>4. StripsInv'
    BY <2>1, <2>3, LaidOut
  <2> QED BY <2>2, <2>4 DEF Inv
<1> QED BY <1>4, <1>5

LEMMA Responded ==
    ASSUME Inv, NEW s, Keeps(strip, s), NEW w, w \in floating \/ w \in Tiled(strip) \/ w = NoWindow, Respond(s, w),
           active' = active, scene' = scene, home' = home, floating' = floating, memory' = memory, drag' = drag
    PROVE  Inv'
<1>1. /\ Tiled(strip) \subseteq Open /\ floating \subseteq Open
      /\ focused \in Open \cup {NoWindow} /\ lastFloat \in floating \cup {NoWindow}
  BY Tenants
<1>2. active \in Spaces /\ never \in BOOLEAN /\ memory \in [Windows -> WidthSet]
  BY StripIs DEF Inv, WindowsInv
<1>3. PICK t : t = IF w \in floating THEN s ELSE Select(s, w, never)
  OBVIOUS
<1>4. LaysOutFreed(t)
  BY <1>3 DEF Respond
<1>5. Keeps(strip, t)
  <2>1. Good(s)
    BY DEF Keeps
  <2>2. Keeps(s, Select(s, w, never))
    BY <1>2, <2>1, Selects
  <2>3. Keeps(strip, Select(s, w, never))
    BY <2>2, KeepsBoth
  <2> QED BY <1>3, <2>3
<1>6. StripsInv'
  BY <1>4, <1>5, LaidOut
<1>7. focused' \in {focused, w} /\ (lastFloat' = lastFloat \/ (w \in floating /\ lastFloat' = w))
  BY DEF Respond
<1>8. WindowsInv'
  BY <1>1, <1>2, <1>7, WindowsHold
<1> QED BY <1>6, <1>8 DEF Inv

LEMMA StripChanged ==
    ASSUME Inv, NEW s, Keeps(strip, s), LaysOut(s) \/ LaysOutFreed(s), drag' = drag \/ drag' = NoDrag,
           memory' \in [Windows -> WidthSet],
           active' = active, scene' = scene, home' = home, floating' = floating, focused' = focused,
           lastFloat' = lastFloat
    PROVE  Inv'
<1>1. StripsInv'
  BY LaidOut
<1>2. active \in Spaces /\ focused \in Open \cup {NoWindow} /\ lastFloat \in floating \cup {NoWindow}
  BY StripIs, Tenants
<1>3. WindowsInv'
  BY <1>2, WindowsHold
<1> QED BY <1>1, <1>3 DEF Inv

LEMMA MemoryIs == ASSUME Inv PROVE memory \in [Windows -> WidthSet]
  BY DEF Inv, WindowsInv

LEMMA FocusReportedHolds == ASSUME Inv, FocusReported PROVE Inv'
<1>1. /\ Focuses(asked) /\ active' = active /\ scene' = scene /\ home' = home /\ floating' = floating
      /\ memory' = memory /\ drag' = drag
  BY DEF FocusReported
<1> QED BY <1>1, WindowFocused

LEMMA ClickedHolds == ASSUME Inv, NEW w, Clicked(w) PROVE Inv'
<1>1. /\ Focuses(w) /\ active' = active /\ scene' = scene /\ home' = home /\ floating' = floating
      /\ memory' = memory /\ drag' = drag
  BY DEF Clicked, Acts
<1> QED BY <1>1, WindowFocused

LEMMA MoveFocusHolds == ASSUME Inv, NEW step, MoveFocusPressed(step) PROVE Inv'
<1>1. PICK escapes : escapes = (focused \in floating /\ step \notin {"first", "last"})
  OBVIOUS
<1>2. PICK targets : targets = IF escapes THEN {} ELSE FocusTargets(strip, step)
  OBVIOUS
<1>3. PICK s : s = IF escapes THEN strip ELSE MoveFocus(strip, step, never)
  OBVIOUS
<1>4. PICK w \in IF targets = {} THEN {SelectedOrFirst(strip)} ELSE targets : Respond(s, w)
  BY <1>1, <1>2, <1>3 DEF MoveFocusPressed
<1>5. /\ active' = active /\ scene' = scene /\ home' = home /\ floating' = floating
      /\ memory' = memory /\ drag' = drag
  BY DEF MoveFocusPressed, Acts
<1>6. Good(strip) /\ Whole(strip) /\ never \in BOOLEAN
  BY StripIs
<1>7. Keeps(strip, s)
  <2>1. Keeps(strip, strip) /\ Keeps(strip, MoveFocus(strip, step, never))
    BY <1>6, Itself, FocusMoves
  <2> QED BY <1>3, <2>1
<1>8. w \in Tiled(strip) \/ w = NoWindow
  <2>1. CASE targets = {}
    BY <1>4, <2>1, Tenants
  <2>2. CASE targets # {}
    BY <1>2, <1>4, <1>6, <2>2, TargetsAre
  <2> QED BY <2>1, <2>2
<1> QED BY <1>4, <1>5, <1>7, <1>8, Responded

LEMMA ToggleFocusFloatingHolds == ASSUME Inv, ToggleFocusFloating PROVE Inv'
<1>1. PICK onStrip : onStrip = IF strip.selected # NoWindow \/ strip.columns = <<>> THEN {strip.selected}
                               ELSE {Last(Last(strip.columns).windows)}
  OBVIOUS
<1>2. PICK afloat : afloat = IF lastFloat # NoWindow THEN {lastFloat} ELSE floating \cap On(active)
  OBVIOUS
<1>3. PICK w \in OrNone(IF focused \in floating THEN onStrip ELSE afloat) : Respond(strip, w)
  BY <1>1, <1>2 DEF ToggleFocusFloating
<1>4. /\ active' = active /\ scene' = scene /\ home' = home /\ floating' = floating
      /\ memory' = memory /\ drag' = drag
  BY DEF ToggleFocusFloating, Acts
<1>5. Good(strip) /\ Whole(strip) /\ Arranged(strip.columns)
  BY StripIs
<1>6. Keeps(strip, strip)
  BY <1>5, Itself
<1>7. onStrip = {strip.selected}
  <2>1. strip.selected = NoWindow => strip.columns = <<>>
    <3>1. NoWindow \notin Tiled(strip)
      BY <1>5, TiledIs
    <3>2. strip.selected = NoWindow => Tiled(strip) = {}
      BY <1>5, <3>1 DEF Whole
    <3> QED BY <1>5, <3>2, Bare
  <2> QED BY <1>1, <2>1
<1>8. strip.selected \in Tiled(strip) \cup {NoWindow} /\ lastFloat \in floating \cup {NoWindow}
  BY Tenants
<1>9. afloat \subseteq floating
  BY <1>2, <1>8
<1>10. w \in floating \/ w \in Tiled(strip) \/ w = NoWindow
  BY <1>3, <1>7, <1>8, <1>9 DEF OrNone
<1> QED BY <1>3, <1>4, <1>6, <1>10, Responded

LEMMA RoundIs ==
    ASSUME NEW s, Arranged(s.columns), NEW w \in Tiled(s)
    PROVE  WindowAfter(s, w) \in Tiled(s) /\ WindowBefore(s, w) \in Tiled(s)
<1>1. OnStrip(s, w)
  BY TiledIs
<1>2. PICK c : c = ColumnOf(s, w)
  OBVIOUS
<1>3. PICK r : r = RowOf(s, w)
  OBVIOUS
<1>4. PICK n : n = Len(s.columns)
  OBVIOUS
<1>5. /\ c \in 1..n /\ DOMAIN s.columns = 1..n /\ n \in Nat /\ Stack(s, w) = s.columns[c].windows
      /\ r \in 1..Len(Stack(s, w)) /\ Len(Stack(s, w)) \in Nat /\ DOMAIN Stack(s, w) = 1..Len(Stack(s, w))
  <2>1. s.columns \in Seq(ColumnSet)
    BY DEF Arranged
  <2>2. c \in DOMAIN s.columns
    BY <1>1, <1>2, WhereIs
  <2>3. Stack(s, w) \in Seq(Windows) /\ Stack(s, w) = s.columns[c].windows /\ r \in 1..Len(Stack(s, w))
    BY <1>1, <1>2, <1>3, WhereIs
  <2> QED BY <1>4, <2>1, <2>2, <2>3
<1>6. \A q \in 1..Len(Stack(s, w)) : Stack(s, w)[q] \in Tiled(s)
  BY <1>5, Rowed
<1>7. \A d \in 1..n : /\ s.columns[d].windows[1] \in Tiled(s)
                      /\ Last(s.columns[d].windows) \in Tiled(s)
  <2>1. ASSUME NEW d \in 1..n
        PROVE  s.columns[d].windows[1] \in Tiled(s) /\ Last(s.columns[d].windows) \in Tiled(s)
    <3>1. PICK ws : ws = s.columns[d].windows
      OBVIOUS
    <3>2. ws \in Seq(Windows) /\ Len(ws) \in Nat \ {0}
      BY <1>5, <3>1, ColumnFacts
    <3>3. \A q \in DOMAIN ws : ws[q] \in Tiled(s)
      BY <1>5, <3>1, Rowed
    <3> QED BY <3>1, <3>2, <3>3 DEF Last
  <2> QED BY <2>1
<1>8. WindowAfter(s, w) \in Tiled(s)
  <2>1. (c % n) + 1 \in 1..n
    BY <1>5
  <2>2. WindowAfter(s, w) = IF r < Len(Stack(s, w)) THEN Stack(s, w)[r + 1] ELSE s.columns[(c % n) + 1].windows[1]
    BY <1>2, <1>3, <1>4 DEF WindowAfter
  <2>3. r < Len(Stack(s, w)) => r + 1 \in 1..Len(Stack(s, w))
    BY <1>5
  <2> QED BY <1>6, <1>7, <2>1, <2>2, <2>3
<1>9. WindowBefore(s, w) \in Tiled(s)
  <2>1. PICK d : d = IF c > 1 THEN c - 1 ELSE n
    OBVIOUS
  <2>2. d \in 1..n
    BY <1>5, <2>1
  <2>3. WindowBefore(s, w) = IF r > 1 THEN Stack(s, w)[r - 1] ELSE Last(s.columns[d].windows)
    BY <1>2, <1>3, <1>4, <2>1 DEF WindowBefore
  <2>4. r > 1 => r - 1 \in 1..Len(Stack(s, w))
    BY <1>5
  <2> QED BY <1>6, <1>7, <2>2, <2>3, <2>4
<1> QED BY <1>8, <1>9

LEMMA FocusCycledHolds == ASSUME Inv, NEW way, FocusCycled(way) PROVE Inv'
<1>1. PICK w \in CycleTargets(way) : Respond(strip, w)
  BY DEF FocusCycled
<1>2. /\ active' = active /\ scene' = scene /\ home' = home /\ floating' = floating
      /\ memory' = memory /\ drag' = drag
  BY DEF FocusCycled, Acts
<1>3. Good(strip) /\ Whole(strip) /\ Arranged(strip.columns)
  BY StripIs
<1>4. Keeps(strip, strip)
  BY <1>3, Itself
<1>5. w \in floating \/ w \in Tiled(strip) \/ w = NoWindow
  <2>1. CASE focused \in floating
    BY <1>1, <2>1 DEF CycleTargets, OrNone
  <2>2. CASE focused \notin floating /\ OnStrip(strip, focused)
    <3>1. focused \in Tiled(strip)
      BY <1>3, <2>2, TiledIs
    <3>2. WindowAfter(strip, focused) \in Tiled(strip) /\ WindowBefore(strip, focused) \in Tiled(strip)
      BY <1>3, <3>1, RoundIs
    <3>3. w \in {WindowAfter(strip, focused), WindowBefore(strip, focused)}
      BY <1>1, <2>2 DEF CycleTargets
    <3> QED BY <3>2, <3>3
  <2>3. CASE focused \notin floating /\ ~OnStrip(strip, focused)
    <3>1. w = SelectedOrFirst(strip)
      BY <1>1, <2>3 DEF CycleTargets
    <3> QED BY <3>1, Tenants
  <2> QED BY <2>1, <2>2, <2>3
<1> QED BY <1>1, <1>2, <1>4, <1>5, Responded

LEMMA OnlyStrip == ASSUME Inv, NEW act, NEW s, Keeps(strip, s), OnStripOnly(act, s) PROVE Inv'
<1>1. /\ LaysOutFreed(s) /\ active' = active /\ scene' = scene /\ home' = home /\ floating' = floating
      /\ memory' = memory /\ drag' = drag /\ focused' = focused /\ lastFloat' = lastFloat
  BY DEF OnStripOnly, Acts, windowVars, focusVars
<1> QED BY <1>1, MemoryIs, StripChanged

LEMMA MoveNodeHolds == ASSUME Inv, NEW step \in Steps, MoveNodePressed(step) PROVE Inv'
<1>1. Keeps(strip, MoveSelection(strip, step, never))
  BY StripIs, SelectionMoves
<1> QED BY <1>1, OnlyStrip DEF MoveNodePressed

LEMMA FoldHolds == ASSUME Inv, NEW side \in {"left", "right"}, FoldPressed(side) PROVE Inv'
<1>1. Keeps(strip, ToggleFold(strip, side, never))
  BY StripIs, FoldToggled
<1> QED BY <1>1, OnlyStrip DEF FoldPressed

LEMMA ExplodeHolds == ASSUME Inv, ExplodePressed PROVE Inv'
<1>1. Keeps(strip, Explode(strip, never))
  BY StripIs, Exploded
<1> QED BY <1>1, OnlyStrip DEF ExplodePressed

LEMMA CenterHolds == ASSUME Inv, CenterPressed PROVE Inv'
<1>1. Keeps(strip, Center(strip))
  BY StripIs, Centers
<1> QED BY <1>1, OnlyStrip DEF CenterPressed

LEMMA SnapHolds == ASSUME Inv, SnapPressed PROVE Inv'
<1>1. Keeps(strip, Snap(strip))
  BY StripIs, Snaps
<1> QED BY <1>1, OnlyStrip DEF SnapPressed

LEMMA CarriedIs ==
    ASSUME NEW s \in StripSet, Arranged(s.columns), NEW w, NEW c \in CarriedWidth(s, w)
    PROVE  c \in WidthSet
<1>1. CASE w \in s.fullWidth
  BY <1>1 DEF CarriedWidth, FullWidth, WidthSet
<1>2. CASE w \notin s.fullWidth
  <2>1. OnStrip(s, w) /\ c = s.columns[ColumnOf(s, w)].width
    BY <1>2 DEF CarriedWidth
  <2>2. s.columns[ColumnOf(s, w)] \in ColumnSet
    BY <2>1, WhereIs
  <2> QED BY <2>1, <2>2 DEF ColumnSet
<1> QED BY <1>1, <1>2

LEMMA RememberedIs ==
    ASSUME Inv, NEW s, Good(s), NEW w
    PROVE  Remembered(s, w) \in [Windows -> WidthSet]
<1>1. s \in StripSet /\ Arranged(s.columns)
  BY WholeIs, Tame
<1>2. Unset \in WidthSet
  BY DEF Unset, WidthSet
<1>3. PICK x : x = IF CarriedWidth(s, w) = {} THEN Unset ELSE CHOOSE c \in CarriedWidth(s, w) : TRUE
  OBVIOUS
<1>4. x \in WidthSet
  <2>1. \A c \in CarriedWidth(s, w) : c \in WidthSet
    BY <1>1, CarriedIs
  <2> QED BY <1>2, <1>3, <2>1
<1>5. Remembered(s, w) = [memory EXCEPT ![w] = x]
  BY <1>3 DEF Remembered
<1> QED BY <1>4, <1>5, MemoryIs

LEMMA WidthHolds ==
    ASSUME Inv, NEW s, Keeps(strip, s), NEW key, NEW w, GivesWidth(key, w, s), LaysOut(s) \/ LaysOutFreed(s),
           scene' = scene, drag' = drag \/ drag' = NoDrag
    PROVE  Inv'
<1>1. /\ active' = active /\ home' = home /\ floating' = floating /\ focused' = focused /\ lastFloat' = lastFloat
      /\ memory' = Remembered(s, w) \/ memory' = memory
  BY DEF GivesWidth, windowVars, focusVars
<1>2. memory' \in [Windows -> WidthSet]
  BY <1>1, RememberedIs, MemoryIs DEF Keeps
<1> QED BY <1>1, <1>2, StripChanged

LEMMA WidthPressedHolds ==
    ASSUME Inv, NEW s, Keeps(strip, s), NEW act, NEW w, WidthPressed(act, w, s)
    PROVE  Inv'
<1>1. GivesWidth(act[1], w, s) /\ LaysOutFreed(s) /\ scene' = scene /\ drag' = drag
  BY DEF WidthPressed, Acts
<1> QED BY <1>1, WidthHolds

LEMMA FullWidthHolds == ASSUME Inv, FullWidthPressed PROVE Inv'
<1>1. Keeps(strip, ToggleFullWidth(strip, strip.selected, never))
  BY StripIs, FullWidthToggled
<1> QED BY <1>1, WidthPressedHolds DEF FullWidthPressed

LEMMA CycleHolds == ASSUME Inv, CyclePressed PROVE Inv'
<1>1. Keeps(strip, CyclePreset(strip, never))
  BY StripIs, PresetCycled
<1> QED BY <1>1, WidthPressedHolds DEF CyclePressed

LEMMA AmountIs ==
    ASSUME Inv, NEW family \in {"grow", "shrink", "appResize", "dragTo"}, NEW amount \in Named(family)
    PROVE  amount \in Nat
<1>1. PICK act \in scene.acts : Len(act) = 2 /\ act[1] = family /\ amount = act[2]
  BY DEF Named
<1>2. scene \in Scenarios
  BY StripIs
<1> QED BY <1>1, <1>2, WorkspacesAssumption

LEMMA ResizeHolds ==
    ASSUME Inv, NEW way, NEW amount \in Nat, ResizePressed(way, amount)
    PROVE  Inv'
<1>1. PICK by : by = IF way = "grow" THEN amount ELSE -amount
  OBVIOUS
<1>2. by \in Int
  BY <1>1
<1>3. Keeps(strip, ResizeBy(strip, by, never))
  BY <1>2, StripIs, Resizes
<1>4. WidthPressed(<<way, amount>>, strip.selected, ResizeBy(strip, by, never))
  BY <1>1 DEF ResizePressed
<1> QED BY <1>3, <1>4, WidthPressedHolds

LEMMA ZoomedHolds == ASSUME Inv, NEW w, Zoomed(w) PROVE Inv'
<1>1. Keeps(strip, ToggleFullWidth(strip, w, never))
  BY StripIs, FullWidthToggled
<1>2. /\ GivesWidth("full", w, ToggleFullWidth(strip, w, never)) /\ LaysOut(ToggleFullWidth(strip, w, never))
      /\ scene' = scene /\ (drag' = drag \/ drag' = NoDrag)
  BY DEF Zoomed, Acts
<1> QED BY <1>1, <1>2, WidthHolds

LEMMA ResizedHolds ==
    ASSUME Inv, NEW w, NEW edge, NEW from, from.x \in Int, from.width \in Int, NEW width \in Nat, NEW height,
           Resized(w, edge, from, width, height), scene' = scene
    PROVE  Inv'
<1>1. /\ LaysOutFreed(ResizeWindow(strip, w, edge, from, width, height, never))
      /\ active' = active /\ home' = home /\ floating' = floating
      /\ memory' = memory /\ drag' = drag /\ focused' = focused /\ lastFloat' = lastFloat
  BY DEF Resized, windowVars, focusVars
<1>2. Keeps(strip, ResizeWindow(strip, w, edge, from, width, height, never))
  <2>1. width \in Int /\ Good(strip) /\ never \in BOOLEAN
    BY StripIs
  <2> QED BY <2>1, FrameReported
<1> QED BY <1>1, <1>2, MemoryIs, StripChanged

LEMMA AppResizedHolds ==
    ASSUME Inv, NEW w, NEW width \in Nat, NEW height, AppResized(w, width, height)
    PROVE  Inv'
<1>1. PICK from : from = [x |-> 0, width |-> 0]
  OBVIOUS
<1>2. from.x \in Int /\ from.width \in Int
  BY <1>1
<1>3. Resized(w, "none", from, width, height) /\ scene' = scene
  BY <1>1 DEF AppResized, Acts
<1> QED BY <1>2, <1>3, ResizedHolds

LEMMA DragReportedHolds == ASSUME Inv, NEW width \in Nat, DragReported(width) PROVE Inv'
<1>1. PICK from : from = [x |-> drag.x, width |-> drag.width]
  OBVIOUS
<1>2. from.x \in Int /\ from.width \in Int
  BY <1>1 DEF DragReported, Inv, WindowsInv
<1>3. Resized(drag.window, drag.edge, from, width, TRUE) /\ scene' = scene
  BY <1>1 DEF DragReported, Acts
<1> QED BY <1>2, <1>3, ResizedHolds

LEMMA DragBeginsHolds == ASSUME Inv, NEW edge, DragBegins(edge) PROVE Inv'
<1>1. /\ active' = active /\ scene' = scene /\ home' = home /\ floating' = floating /\ strips' = strips
      /\ memory' = memory /\ focused' = focused /\ lastFloat' = lastFloat
      /\ drag' = [edge |-> edge, window |-> focused, x |-> ShownX(strip), width |-> strip.measured.slot]
  BY DEF DragBegins, Acts, windowVars, focusVars
<1>2. strip.measured \in Measures
  BY StripIs DEF StripSet
<1>3. strip.measured.slot \in Int /\ strip.measured.rel \in Int /\ strip.measured.delta \in Int /\ Viewport \in Int
  BY <1>2, StripAssumption DEF Measures
<1>4. (Viewport - strip.measured.slot) \div 2 \in Int
  BY <1>3
<1>5. drag'.x \in Int /\ drag'.width \in Int
  BY <1>1, <1>3, <1>4 DEF ShownX
<1>6. Open' = Open
  BY <1>1 DEF Open
<1>7. WindowsInv'
  BY <1>1, <1>5, <1>6 DEF Inv, WindowsInv
<1> QED BY <1>1, <1>7, StripsHold DEF Inv

LEMMA DragEndsHolds == ASSUME Inv, NEW target, DragEnds(target) PROVE Inv'
<1>1. PICK s : s = IF target = NoWindow THEN strip ELSE SwapWindows(strip, drag.window, target)
  OBVIOUS
<1>2. /\ LaysOut(s) /\ active' = active /\ scene' = scene /\ home' = home /\ floating' = floating
      /\ memory' = memory /\ drag' = NoDrag /\ focused' = focused /\ lastFloat' = lastFloat
      /\ target # drag.window
  BY <1>1 DEF DragEnds, windowVars, focusVars
<1>3. Good(strip) /\ Whole(strip)
  BY StripIs
<1>4. Keeps(strip, strip)
  BY <1>3, Itself
<1>5. Changes(strip, SwapWindows(strip, drag.window, target))
  BY <1>2, <1>3, Swapped
<1>6. Keeps(strip, SwapWindows(strip, drag.window, target))
  BY <1>4, <1>5, ChangesKeep
<1>7. Keeps(strip, s)
  BY <1>1, <1>4, <1>6
<1> QED BY <1>2, <1>7, MemoryIs, StripChanged

-----------------------------------------------------------------------------
(* The steps that change where windows live.                               *)

LEMMA Homes ==
    ASSUME Inv
    PROVE  /\ home \in [Windows -> Spaces \cup {Unopened, Gone}] /\ Unopened \notin Spaces /\ Gone \notin Spaces
           /\ \A w : w \in Open <=> w \in Windows /\ home[w] \in Spaces
           /\ NoWindow \notin Windows /\ NoWindow \notin Open /\ floating \subseteq Open
           /\ StripsAre(strips, home, floating) /\ scene \in Scenarios /\ active \in Spaces /\ never \in BOOLEAN
           /\ memory \in [Windows -> WidthSet]
           /\ focused \in Open \cup {NoWindow} /\ lastFloat \in floating \cup {NoWindow}
  BY WorkspacesAssumption, StripAssumption, StripIs DEF Inv, WindowsInv, StripsInv, Open

LEMMA FloatingHolds == ASSUME Inv, ToggleWindowFloating PROVE Inv'
<1>1. PICK w : w = focused
  OBVIOUS
<1>2. w \in Windows /\ w \in Open /\ home[w] \in Spaces
  BY <1>1, Homes DEF ToggleWindowFloating
<1>3. /\ active' = active /\ scene' = scene /\ home' = home /\ memory' = memory /\ drag' = drag /\ focused' = focused
      /\ floating' = (IF w \in floating THEN floating \ {w} ELSE floating \cup {w})
      /\ lastFloat' = (IF w \in floating THEN NoWindow ELSE w)
  BY <1>1 DEF ToggleWindowFloating, Acts, focusVars
<1>4. PICK ss : ss = IF w \in floating THEN [strips EXCEPT ![home[w]] = Insert(@, w, never)] ELSE RemovedEverywhere(w)
  OBVIOUS
<1>5. strips' = PassedOver(ss, active)
  BY <1>1, <1>4 DEF ToggleWindowFloating
<1>6. StripsAre(ss, home, floating')
  <2>1. CASE w \in floating
    <3>1. PICK x : x = Insert(strips[home[w]], w, never)
      OBVIOUS
    <3>2. Good(strips[home[w]]) /\ Tiled(strips[home[w]]) = Inhabited(home, floating, home[w])
      BY <1>2, Homes DEF StripsAre, Inhabited
    <3>3. Whole(strips[home[w]]) /\ w \notin Tiled(strips[home[w]])
      BY <2>1, <3>2, WholeIs DEF Inhabited
    <3>4. Good(x) /\ Lengths(x) /\ Tiled(x) = Inhabited(home, floating, home[w]) \cup {w}
      BY <1>2, <3>1, <3>2, <3>3, Homes, Inserted
    <3>5. Tiled(x) = Inhabited(home, floating', home[w])
      BY <1>2, <1>3, <2>1, <3>4 DEF Inhabited
    <3>6. \A v \in Spaces : v # home[w] => Inhabited(home, floating', v) = Inhabited(home, floating, v)
      BY <1>3, <2>1 DEF Inhabited
    <3>7. ss = [strips EXCEPT ![home[w]] = x]
      BY <1>4, <2>1, <3>1
    <3> QED BY <1>2, <3>4, <3>5, <3>6, <3>7, Homes, OneMade
  <2>2. CASE w \notin floating
    <3>1. ss = [ws \in Spaces |-> RemoveWindow(strips[ws], w)]
      BY <1>4, <2>2 DEF RemovedEverywhere
    <3>2. StripsAre(ss, home, floating \cup {w})
      BY <1>2, <3>1, Homes, AllRemoved
    <3> QED BY <1>3, <2>2, <3>2
  <2> QED BY <2>1, <2>2
<1>7. StripsAre(strips', home, floating')
  BY <1>5, <1>6, Homes, AllPassed
<1>8. Open' = Open
  BY <1>3 DEF Open
<1>9. Holding' = Holding
  BY <1>3 DEF Holding
<1>10. floating' \subseteq Open /\ lastFloat' \in floating' \cup {NoWindow}
  BY <1>2, <1>3, Homes
<1>11. WindowsInv'
  BY <1>3, <1>8, <1>9, <1>10 DEF Inv, WindowsInv
<1> QED BY <1>3, <1>7, <1>11 DEF Inv, StripsInv

LEMMA WorkspaceShown ==
    ASSUME NEW ss, NEW homes, NEW afloat, StripsAre(ss, homes, afloat), NEW ws \in Spaces, scene \in Scenarios,
           NEW last, NEW w, ShowsWorkspace(ss, last, ws, w)
    PROVE  /\ StripsAre(strips', homes, afloat) /\ active' = ws
           /\ focused' \in {focused, w} /\ (lastFloat' = lastFloat \/ (w \in floating /\ lastFloat' = w))
<1>1. PICK settled : settled = IF w = NoWindow \/ w \in floating THEN ss ELSE [ss EXCEPT ![ws] = Select(@, w, never)]
  OBVIOUS
<1>2. StripsAre(settled, homes, afloat)
  <2>1. CASE settled = ss
    BY <2>1
  <2>2. CASE settled # ss
    <3>1. settled = [ss EXCEPT ![ws] = Select(ss[ws], w, never)]
      BY <1>1, <2>2
    <3>2. Good(ss[ws])
      BY DEF StripsAre
    <3>3. Keeps(ss[ws], Select(ss[ws], w, never))
      BY <3>2, NeverIs, Selects
    <3> QED BY <3>1, <3>3, OneKept
  <2> QED BY <2>1, <2>2
<1>3. active' = ws /\ focused' \in {focused, w} /\ (lastFloat' = lastFloat \/ (w \in floating /\ lastFloat' = w))
  BY DEF ShowsWorkspace
<1>4. strips' = ss \/ strips' = PassedOver(settled, ws)
  BY <1>1 DEF ShowsWorkspace
<1>5. StripsAre(strips', homes, afloat)
  <2>1. CASE strips' = ss
    BY <2>1
  <2>2. CASE strips' = PassedOver(settled, ws)
    BY <1>2, <2>2, AllPassed
  <2> QED BY <1>4, <2>1, <2>2
<1> QED BY <1>3, <1>5

LEMMA SwitchHolds == ASSUME Inv, NEW ws \in Spaces, SwitchTo(ws) PROVE Inv'
<1>1. PICK w \in Preferred(ws) : ShowsWorkspace(strips, lastFocus, ws, w)
  BY DEF SwitchTo
<1>2. scene' = scene /\ home' = home /\ floating' = floating /\ memory' = memory /\ drag' = drag
  BY DEF SwitchTo, Acts
<1>3. /\ StripsAre(strips', home, floating) /\ active' = ws
      /\ focused' \in {focused, w} /\ (lastFloat' = lastFloat \/ (w \in floating /\ lastFloat' = w))
  BY <1>1, Homes, WorkspaceShown
<1>4. w \in Open \cup {NoWindow}
  <2>1. CASE lastFocus[ws] \in On(ws)
    BY <1>1, <2>1, Homes DEF Preferred, On
  <2>2. CASE lastFocus[ws] \notin On(ws) /\ strips[ws].columns # <<>>
    <3>1. Good(strips[ws]) /\ Tiled(strips[ws]) = Inhabited(home, floating, ws)
      BY Homes DEF StripsAre, Inhabited
    <3>2. Whole(strips[ws])
      BY <3>1, WholeIs
    <3>3. w = strips[ws].selected
      BY <1>1, <2>2, <3>2, FirstIs DEF Preferred
    <3>4. w \in Inhabited(home, floating, ws) \/ w = NoWindow
      BY <3>1, <3>2, <3>3 DEF Whole
    <3> QED BY <3>4, Homes DEF Inhabited
  <2>3. CASE lastFocus[ws] \notin On(ws) /\ strips[ws].columns = <<>>
    <3>1. w \in floating \cup {NoWindow}
      BY <1>1, <2>3, Homes DEF Preferred, OrNone
    <3> QED BY <3>1, Homes
  <2> QED BY <2>1, <2>2, <2>3
<1>5. WindowsInv'
  <2>1. focused' \in Open \cup {NoWindow} /\ lastFloat' \in floating \cup {NoWindow} /\ memory' \in [Windows -> WidthSet]
    BY <1>2, <1>3, <1>4, Homes
  <2> QED BY <1>2, <1>3, <2>1, WindowsHold
<1> QED BY <1>2, <1>3, <1>5 DEF Inv, StripsInv

LEMMA FocusSettled ==
    ASSUME NEW w, NEW from, NEW ws, NEW last, FocusAfterMove(w, from, ws, last)
    PROVE  focused' \in {focused, NoWindow}
  BY DEF FocusAfterMove

LEMMA MoveToWorkspaceHolds ==
    ASSUME Inv, NEW ws \in Spaces, NEW follow \in BOOLEAN, MoveWindowToWorkspace(ws, follow)
    PROVE  Inv'
<1>1. PICK w : w = focused
  OBVIOUS
<1>2. w # NoWindow /\ home[w] # ws
  BY <1>1 DEF MoveWindowToWorkspace
<1>3. w \in Windows /\ w \in Open /\ home[w] \in Spaces
  BY <1>1, <1>2, Homes
<1>4. /\ scene' = scene /\ floating' = floating /\ drag' = drag
      /\ home' = [home EXCEPT ![w] = ws]
      /\ memory' = (IF w \notin floating THEN Remembered(strips[home[w]], w) ELSE memory)
  BY <1>1 DEF MoveWindowToWorkspace, Acts
<1>5. memory' \in [Windows -> WidthSet]
  <2>1. Good(strips[home[w]])
    BY <1>3, Homes DEF StripsAre
  <2> QED BY <1>4, <2>1, RememberedIs, MemoryIs
<1>6. PICK ss : ss = IF w \notin floating
                     THEN [RemovedEverywhere(w) EXCEPT ![ws] = WithWidth(Insert(@, w, never), w, memory'[w])] ELSE strips
  OBVIOUS
<1>7. home'[w] = ws /\ \A v \in Windows : v # w => home'[v] = home[v]
  BY <1>3, <1>4, Homes
<1>8. StripsAre(ss, home', floating)
  <2>1. CASE w \notin floating
    <3>1. PICK taken : taken = [v \in Spaces |-> RemoveWindow(strips[v], w)]
      OBVIOUS
    <3>2. StripsAre(taken, home, floating \cup {w})
      BY <1>3, <3>1, Homes, AllRemoved
    <3>3. Good(taken[ws]) /\ Tiled(taken[ws]) = Inhabited(home, floating \cup {w}, ws)
      BY <3>2 DEF StripsAre, Inhabited
    <3>4. PICK x : x = WithWidth(Insert(taken[ws], w, never), w, memory'[w])
      OBVIOUS
    <3>5. w \notin Tiled(taken[ws]) /\ memory'[w] \in WidthSet
      BY <1>3, <1>5, <3>3 DEF Inhabited
    <3>6. Good(x) /\ Lengths(x) /\ Tiled(x) = Tiled(taken[ws]) \cup {w}
      BY <1>3, <3>3, <3>4, <3>5, NeverIs, Homes, WidthPut
    <3>7. Tiled(x) = Inhabited(home', floating, ws)
      BY <1>3, <1>7, <2>1, <3>3, <3>6 DEF Inhabited
    <3>8. \A v \in Spaces : v # ws => Inhabited(home', floating, v) = Inhabited(home, floating \cup {w}, v)
      BY <1>3, <1>7 DEF Inhabited
    <3>9. ss = [taken EXCEPT ![ws] = x]
      BY <1>6, <2>1, <3>1, <3>4 DEF RemovedEverywhere
    <3> QED BY <3>2, <3>6, <3>7, <3>8, <3>9, OneMade, ZenonT(40)
  <2>2. CASE w \in floating
    <3>1. \A v : Inhabited(home', floating, v) = Inhabited(home, floating, v)
      BY <1>7, <2>2 DEF Inhabited
    <3>2. StripsAre(strips, home', floating)
      BY <3>1, Homes DEF StripsAre, Inhabited
    <3> QED BY <1>6, <2>2, <3>2
  <2> QED BY <2>1, <2>2
<1>9. /\ StripsAre(strips', home', floating) /\ active' \in Spaces
      /\ focused' \in {focused, NoWindow} /\ (lastFloat' = lastFloat \/ (w \in floating /\ lastFloat' = w))
  <2>1. PICK last : last = [lastFocus EXCEPT ![home[w]] = IF @ = w THEN NoWindow ELSE @]
    OBVIOUS
  <2>2. CASE follow
    <3>1. ShowsWorkspace(ss, last, ws, w)
      BY <1>1, <1>6, <2>1, <2>2 DEF MoveWindowToWorkspace
    <3> QED BY <1>1, <1>8, <3>1, Homes, WorkspaceShown
  <2>3. CASE ~follow
    <3>1. strips' = PassedOver(ss, active) /\ FocusAfterMove(w, home[w], ws, last)
          /\ active' = active /\ lastFloat' = lastFloat
      BY <1>1, <1>6, <2>1, <2>3 DEF MoveWindowToWorkspace
    <3>2. StripsAre(strips', home', floating)
      BY <1>8, <3>1, Homes, AllPassed
    <3> QED BY <3>1, <3>2, Homes, FocusSettled
  <2> QED BY <2>2, <2>3
<1>10. WindowsInv'
  <2>1. Open' = Open
    BY <1>3, <1>7, Homes DEF Open
  <2>2. Holding' = Holding
    BY <1>4 DEF Holding
  <2>3. home' \in [Windows -> Spaces \cup {Unopened, Gone}]
    BY <1>4, Homes
  <2>4. focused' \in Open \cup {NoWindow} /\ lastFloat' \in floating \cup {NoWindow}
    BY <1>9, Homes
  <2> QED BY <1>4, <1>5, <1>9, <2>1, <2>2, <2>3, <2>4 DEF Inv, WindowsInv
<1> QED BY <1>4, <1>9, <1>10 DEF Inv, StripsInv

LEMMA AddedIs ==
    ASSUME Inv, NEW w \in Windows, home[w] = Unopened, NEW x, x = Added(w)
    PROVE  /\ Good(x) /\ Lengths(x) /\ Tiled(x) = Tiled(strip) \cup {w}
           /\ w \notin Tiled(strip) /\ w \notin Open /\ w \notin floating /\ memory[w] \in WidthSet
<1>1. Good(strip) /\ Tiled(strip) = Inhabited(home, floating, active) /\ never \in BOOLEAN
  BY StripIs
<1>2. w \notin Open /\ w \notin floating
  BY Homes
<1>3. w \notin Tiled(strip) /\ memory[w] \in WidthSet
  BY <1>1, <1>2, Homes DEF Inhabited
<1>4. x = WithWidth(Insert(strip, w, never), w, memory[w])
  BY DEF Added
<1> QED BY <1>1, <1>2, <1>3, <1>4, WidthPut

(* A window that joins the strip on screen.                                *)
LEMMA JoinedHolds ==
    ASSUME Inv, NEW w \in Windows, home[w] = Unopened, NEW x, LaysOutFreed(x),
           Good(x), Lengths(x), Tiled(x) = Tiled(strip) \cup {w},
           active' = active, scene' = scene, floating' = floating, memory' = memory, drag' = drag,
           focused' = focused, lastFloat' = lastFloat, home' = [home EXCEPT ![w] = active]
    PROVE  Inv'
<1>1. Tiled(strip) = Inhabited(home, floating, active) /\ w \notin Open /\ w \notin floating
  BY StripIs, Homes
<1>2. home'[w] = active /\ \A v \in Windows : v # w => home'[v] = home[v]
  BY Homes
<1>3. Tiled(x) = Inhabited(home', floating, active)
  BY <1>1, <1>2 DEF Inhabited
<1>4. \A v \in Spaces : v # active => Inhabited(home', floating, v) = Inhabited(home, floating, v)
  BY <1>2, Homes DEF Inhabited
<1>5. PICK ss : ss = [strips EXCEPT ![active] = x]
  OBVIOUS
<1>6. StripsAre(ss, home', floating)
  BY <1>3, <1>4, <1>5, Homes, OneMade
<1>7. strips' = ss \/ strips' = [ss EXCEPT ![active] = Pass(@, never)]
  <2>1. ss[active] = x /\ [strips EXCEPT ![active] = Pass(x, never)] = [ss EXCEPT ![active] = Pass(x, never)]
    <3>1. strips \in [Spaces -> StripSet] /\ active \in Spaces
      BY Homes DEF StripsAre
    <3> QED BY <1>5, <3>1
  <2>2. strips' = ss \/ strips' = [strips EXCEPT ![active] = Pass(x, never)]
    BY <1>5 DEF LaysOutFreed, LaysOut
  <2> QED BY <2>1, <2>2
<1>8. StripsAre(strips', home', floating)
  <2>1. StripsAre([ss EXCEPT ![active] = Pass(@, never)], home', floating)
    BY <1>6, Homes, AllPassed
  <2> QED BY <1>6, <1>7, <2>1
<1>9. WindowsInv'
  <2>1. Open \subseteq Open'
    BY <1>2, Homes DEF Open
  <2>2. Holding' = Holding
    BY DEF Holding
  <2>3. home' \in [Windows -> Spaces \cup {Unopened, Gone}]
    BY Homes
  <2>4. floating' \subseteq Open' /\ focused' \in Open' \cup {NoWindow} /\ lastFloat' \in floating' \cup {NoWindow}
    BY <2>1, Homes
  <2> QED BY <2>2, <2>3, <2>4 DEF Inv, WindowsInv
<1> QED BY <1>8, <1>9 DEF Inv, StripsInv

LEMMA OpenedHolds == ASSUME Inv, NEW w \in Windows, Opened(w) PROVE Inv'
<1>1. /\ active' = active /\ scene' = scene /\ floating' = floating /\ memory' = memory /\ drag' = drag
      /\ focused' = focused /\ lastFloat' = lastFloat /\ home' = [home EXCEPT ![w] = active] /\ home[w] = Unopened
  BY DEF Opened, Acts
<1>2. PICK x : x = Added(w)
  OBVIOUS
<1>3. LaysOutFreed(x)
  BY <1>2 DEF Opened
<1> QED BY <1>1, <1>2, <1>3, AddedIs, JoinedHolds

LEMMA DiscoveredHolds == ASSUME Inv, NEW w \in Windows, Discovered(w) PROVE Inv'
<1>1. /\ active' = active /\ scene' = scene /\ floating' = floating /\ memory' = memory /\ drag' = drag
      /\ focused' = focused /\ lastFloat' = lastFloat /\ home' = [home EXCEPT ![w] = active] /\ home[w] = Unopened
  BY DEF Discovered, Acts, focusVars
<1>2. PICK u : u = Added(w)
  OBVIOUS
<1>3. PICK x : x = IF Located(strip) THEN Select(u, strip.selected, never) ELSE u
  OBVIOUS
<1>4. LaysOutFreed(x)
  BY <1>2, <1>3 DEF Discovered
<1>5. Good(u) /\ Lengths(u) /\ Tiled(u) = Tiled(strip) \cup {w}
  BY <1>1, <1>2, AddedIs
<1>6. Keeps(u, x)
  <2>1. Keeps(u, u) /\ Keeps(u, Select(u, strip.selected, never))
    BY <1>5, StripIs, Itself, Selects
  <2> QED BY <1>3, <2>1
<1> QED BY <1>1, <1>4, <1>5, <1>6, JoinedHolds DEF Keeps

LEMMA ClosedHolds == ASSUME Inv, NEW w \in Windows, Closed(w) PROVE Inv'
<1>1. /\ active' = active /\ scene' = scene /\ floating' = floating \ {w} /\ memory' = [memory EXCEPT ![w] = Unset]
      /\ drag' = drag \/ drag' = NoDrag
      /\ focused' = (IF focused = w THEN NoWindow ELSE focused)
      /\ lastFloat' = (IF lastFloat = w THEN NoWindow ELSE lastFloat)
      /\ home' = [home EXCEPT ![w] = Gone]
      /\ strips' = [[strips EXCEPT ![home[w]] = RemoveWindow(@, w)] EXCEPT ![active] = Pass(@, never)]
      /\ w \in Open
  BY DEF Closed, Acts
<1>2. home[w] \in Spaces /\ Gone \notin Spaces
  BY <1>1, Homes
<1>3. home'[w] = Gone /\ \A v \in Windows : v # w => home'[v] = home[v]
  BY <1>1, Homes
<1>4. PICK x : x = RemoveWindow(strips[home[w]], w)
  OBVIOUS
<1>5. /\ Good(strips[home[w]]) /\ Lengths(strips[home[w]])
      /\ Tiled(strips[home[w]]) = Inhabited(home, floating, home[w])
  BY <1>2, Homes DEF StripsAre, Inhabited
<1>6. Good(x) /\ Lengths(x) /\ Tiled(x) = Inhabited(home, floating, home[w]) \ {w}
  BY <1>4, <1>5, Removed
<1>7. Tiled(x) = Inhabited(home', floating', home[w])
  BY <1>1, <1>2, <1>3, <1>6 DEF Inhabited
<1>8. \A v \in Spaces : v # home[w] => Inhabited(home', floating', v) = Inhabited(home, floating, v)
  BY <1>1, <1>2, <1>3 DEF Inhabited
<1>9. PICK ss : ss = [strips EXCEPT ![home[w]] = x]
  OBVIOUS
<1>10. StripsAre(ss, home', floating')
  BY <1>2, <1>6, <1>7, <1>8, <1>9, Homes, OneMade
<1>11. strips' = [ss EXCEPT ![active] = Pass(@, never)]
  BY <1>1, <1>4, <1>9
<1>12. StripsAre(strips', home', floating')
  BY <1>10, <1>11, Homes, AllPassed
<1>13. WindowsInv'
  <2>1. Open' = Open \ {w}
    BY <1>2, <1>3, Homes DEF Open
  <2>2. Holding' => Holding /\ drag' = drag
    BY <1>1 DEF Holding
  <2>3. home' \in [Windows -> Spaces \cup {Unopened, Gone}]
    BY <1>1, Homes
  <2>4. memory' \in [Windows -> WidthSet]
    <3>1. Unset \in WidthSet
      BY DEF Unset, WidthSet
    <3> QED BY <1>1, <3>1, Homes
  <2>5. floating' \subseteq Open' /\ focused' \in Open' \cup {NoWindow} /\ lastFloat' \in floating' \cup {NoWindow}
    BY <1>1, <2>1, Homes
  <2>6. Holding' => drag'.x \in Int /\ drag'.width \in Int
    BY <2>2 DEF Inv, WindowsInv
  <2>7. active' \in Spaces /\ scene' \in Scenarios
    BY <1>1, Homes
  <2> QED BY <2>3, <2>4, <2>5, <2>6, <2>7 DEF WindowsInv
<1> QED BY <1>12, <1>13 DEF Inv, StripsInv

LEMMA ReidentifiedHolds == ASSUME Inv, NEW from \in Windows, NEW to \in Windows, Reidentified(from, to) PROVE Inv'
<1>1. /\ active' = active /\ scene' = scene /\ drag' = drag
      /\ floating' = {Newly(from, to, w) : w \in floating} /\ lastFloat' = Newly(from, to, lastFloat)
      /\ focused' = Newly(from, to, focused)
      /\ memory' = [memory EXCEPT ![to] = memory[from], ![from] = Unset]
      /\ home' = [home EXCEPT ![to] = home[from], ![from] = Gone]
      /\ from \in Open /\ home[to] = Unopened
  BY DEF Reidentified, Acts, Newly
<1>2. strips' = PassedOver([ws \in Spaces |-> ReplaceWindow(RemoveWindow(strips[ws], to), from, to)], active)
  BY DEF Reidentified
<1>3. home[from] \in Spaces /\ Gone \notin Spaces /\ from # to /\ to \notin Open /\ to \notin floating
  BY <1>1, Homes
<1>4. home'[to] = home[from] /\ home'[from] = Gone /\ \A v \in Windows : v # from /\ v # to => home'[v] = home[v]
  BY <1>1, <1>3, Homes
<1>5. \A w \in Windows : (w \in floating' <=> (w = to /\ from \in floating) \/ (w \in floating /\ w # from))
  BY <1>1, <1>3 DEF Newly
<1>6. PICK ss : ss = [ws \in Spaces |-> ReplaceWindow(RemoveWindow(strips[ws], to), from, to)]
  OBVIOUS
<1>7. ASSUME NEW ws \in Spaces
      PROVE  Good(ss[ws]) /\ Lengths(ss[ws]) /\ Tiled(ss[ws]) = Inhabited(home', floating', ws)
  <2>1. PICK s : s = strips[ws]
    OBVIOUS
  <2>2. PICK u : u = RemoveWindow(s, to)
    OBVIOUS
  <2>3. PICK t : t = ReplaceWindow(u, from, to)
    OBVIOUS
  <2>4. Good(s) /\ Lengths(s) /\ Tiled(s) = Inhabited(home, floating, ws)
    BY <2>1, Homes DEF StripsAre, Inhabited
  <2>5. Good(u) /\ Lengths(u) /\ Tiled(u) = Tiled(s) \ {to}
    BY <2>2, <2>4, Removed
  <2>6. to \notin Tiled(u)
    BY <2>5
  <2>7. Good(t) /\ Lengths(t) /\ Tiled(t) = {Newly(from, to, w) : w \in Tiled(u)}
    BY <1>3, <2>3, <2>5, <2>6, Replaced
  <2>8. Tiled(u) = Inhabited(home, floating, ws)
    BY <1>3, <2>4, <2>5, Homes DEF Inhabited
  <2>9. ASSUME NEW w
        PROVE  w \in {Newly(from, to, v) : v \in Inhabited(home, floating, ws)} <=> w \in Inhabited(home', floating', ws)
    <3>1. CASE w = to
      BY <1>1, <1>3, <1>4, <1>5, <3>1, Homes DEF Newly, Inhabited
    <3>2. CASE w # to
      BY <1>1, <1>3, <1>4, <1>5, <3>2, Homes DEF Newly, Inhabited
    <3> QED BY <3>1, <3>2
  <2>10. ss[ws] = t
    BY <1>6, <2>1, <2>2, <2>3
  <2> QED BY <2>7, <2>8, <2>9, <2>10
<1>8. StripsAre(ss, home', floating')
  <2>1. ss = [ws \in Spaces |-> ss[ws]]
    BY <1>6
  <2> QED BY <1>7, <2>1, StripsMade
<1>9. StripsAre(strips', home', floating')
  BY <1>2, <1>6, <1>8, Homes, AllPassed
<1>10. WindowsInv'
  <2>1. \A w : w \in Open' <=> w = to \/ (w \in Open /\ w # from)
    BY <1>1, <1>3, <1>4, Homes DEF Open
  <2>2. Holding' = Holding
    BY <1>1 DEF Holding
  <2>3. home' \in [Windows -> Spaces \cup {Unopened, Gone}]
    BY <1>1, <1>3, Homes
  <2>4. memory' \in [Windows -> WidthSet]
    <3>1. Unset \in WidthSet /\ memory[from] \in WidthSet
      BY Homes DEF Unset, WidthSet
    <3> QED BY <1>1, <3>1, Homes
  <2>5. floating' \subseteq Open'
    BY <1>1, <1>3, <2>1, Homes DEF Newly
  <2>6. focused' \in Open' \cup {NoWindow}
    BY <1>1, <2>1, Homes DEF Newly
  <2>7. lastFloat' \in floating' \cup {NoWindow}
    BY <1>1, <1>3, Homes DEF Newly
  <2> QED BY <1>1, <2>2, <2>3, <2>4, <2>5, <2>6, <2>7 DEF Inv, WindowsInv
<1> QED BY <1>9, <1>10 DEF Inv, StripsInv

-----------------------------------------------------------------------------
(* Every step.                                                             *)

LEMMA StutterHolds == ASSUME Inv, UNCHANGED vars PROVE Inv'
<1>1. /\ scene' = scene /\ strips' = strips /\ active' = active /\ home' = home /\ floating' = floating
      /\ focused' = focused /\ lastFloat' = lastFloat /\ memory' = memory /\ drag' = drag
  BY DEF vars
<1>2. focused \in Open \cup {NoWindow} /\ lastFloat \in floating \cup {NoWindow} /\ active \in Spaces
      /\ memory \in [Windows -> WidthSet]
  BY Homes
<1>3. WindowsInv'
  BY <1>1, <1>2, WindowsHold
<1> QED BY <1>1, <1>3, StripsHold DEF Inv

LEMMA StepHolds == ASSUME Inv, Next PROVE Inv'
<1>1. CASE FocusReported
  BY <1>1, FocusReportedHolds
<1>2. CASE \E step \in Steps : MoveFocusPressed(step) \/ MoveNodePressed(step)
  BY <1>2, MoveFocusHolds, MoveNodeHolds
<1>3. CASE \E side \in {"left", "right"} : FoldPressed(side) \/ DragBegins(side)
  BY <1>3, FoldHolds, DragBeginsHolds
<1>4. CASE DragBegins("still")
  BY <1>4, DragBeginsHolds
<1>5. CASE ExplodePressed \/ CenterPressed \/ SnapPressed
  BY <1>5, ExplodeHolds, CenterHolds, SnapHolds
<1>6. CASE FullWidthPressed \/ CyclePressed
  BY <1>6, FullWidthHolds, CycleHolds
<1>7. CASE \E amount \in Named("grow") : ResizePressed("grow", amount)
  BY <1>7, AmountIs, ResizeHolds
<1>8. CASE \E amount \in Named("shrink") : ResizePressed("shrink", amount)
  BY <1>8, AmountIs, ResizeHolds
<1>9. CASE ToggleFocusFloating \/ ToggleWindowFloating \/ \E way \in {"forward", "backward"} : FocusCycled(way)
  BY <1>9, ToggleFocusFloatingHolds, FloatingHolds, FocusCycledHolds
<1>10. CASE \E ws \in Spaces : SwitchTo(ws) \/ MoveWindowToWorkspace(ws, TRUE) \/ MoveWindowToWorkspace(ws, FALSE)
  BY <1>10, SwitchHolds, MoveToWorkspaceHolds
<1>11. CASE \E w \in Windows : Clicked(w) \/ Zoomed(w) \/ Opened(w) \/ Discovered(w) \/ Closed(w)
  BY <1>11, ClickedHolds, ZoomedHolds, OpenedHolds, DiscoveredHolds, ClosedHolds
<1>12. CASE \E from, to \in Windows : Reidentified(from, to)
  BY <1>12, ReidentifiedHolds
<1>13. CASE \E w \in Windows, width \in Named("appResize"), height \in BOOLEAN : AppResized(w, width, height)
  BY <1>13, AmountIs, AppResizedHolds
<1>14. CASE \E width \in Named("dragTo") : DragReported(width)
  BY <1>14, AmountIs, DragReportedHolds
<1>15. CASE \E w \in Windows \cup {NoWindow} : DragEnds(w)
  BY <1>15, DragEndsHolds
<1> QED BY <1>1, <1>2, <1>3, <1>4, <1>5, <1>6, <1>7, <1>8, <1>9, <1>10, <1>11, <1>12, <1>13, <1>14, <1>15 DEF Next

(* In every behaviour, the windows' places and the strips are kept sound   *)
(* by every press, report, drag, and window opened or closed.              *)
THEOREM StripsKept == Spec => []Inv
<1>1. Inv /\ [Next]_vars => Inv'
  BY StepHolds, StutterHolds
<1> QED BY Initially, <1>1, PTL DEF Spec

LEMMA InvAgrees == ASSUME Inv PROVE StripsAgree
<1>1. StripsAre(strips, home, floating)
  BY Homes
<1>2. ASSUME NEW ws \in Spaces
      PROVE  /\ Tiled(strips[ws]) = On(ws) \ floating /\ Good(strips[ws])
  BY <1>1, <1>2 DEF StripsAre, On
<1>3. EachInOnePlace
  <2> SUFFICES ASSUME NEW ws \in Spaces
               PROVE  LET columns == strips[ws].columns IN
                      /\ Tiled(strips[ws]) = On(ws) \ floating
                      /\ \A c \in DOMAIN columns : columns[c].windows \in Seq(Windows) \ {<<>>}
                      /\ \A c, d \in DOMAIN columns :
                            \A i \in DOMAIN columns[c].windows, j \in DOMAIN columns[d].windows :
                                columns[c].windows[i] = columns[d].windows[j] => c = d /\ i = j
    BY DEF EachInOnePlace
  <2>1. PICK columns : columns = strips[ws].columns
    OBVIOUS
  <2>2. columns \in Seq(ColumnSet) /\ Once(columns)
    BY <1>2, <2>1 DEF Good, StripSet
  <2>3. \A c \in DOMAIN columns : columns[c] \in ColumnSet
    BY <2>2
  <2>4. \A c \in DOMAIN columns : columns[c].windows \in Seq(Windows) \ {<<>>}
    BY <2>3 DEF ColumnSet
  <2> QED BY <1>2, <2>1, <2>2, <2>4 DEF Once
<1>4. RemembersOwn
  <2> SUFFICES ASSUME NEW ws \in Spaces
               PROVE  LET s == strips[ws] IN
                  /\ IF s.columns = <<>> THEN s.selected = NoWindow ELSE OnStrip(s, s.selected)
                  /\ \A w \in s.fullWidth : OnStrip(s, w) /\ ~Stacked(s, w)
                  /\ \A w \in Windows :
                        /\ s.widthOrigins[w] # NoOrigin => w \in s.fullWidth
                        /\ \A origin \in {s.widthOrigins[w], s.foldOrigins[w]} \ {NoOrigin} :
                              OnStrip(s, w) /\ OnStrip(s, origin.anchor) /\ origin.anchor # w
                  /\ {s.centre, s.keptView.window, s.keptPlace.window} \subseteq {NoWindow, s.selected}
    BY DEF RemembersOwn
  <2>1. PICK s : s = strips[ws]
    OBVIOUS
  <2>2. Led(s) /\ Alone(s) /\ FullOnly(s) /\ Beyond(s, s.widthOrigins) /\ Beyond(s, s.foldOrigins) /\ HeldFor(s)
    BY <1>2, <2>1 DEF Good
  <2> QED BY <2>1, <2>2 DEF Led, Alone, FullOnly, Beyond, HeldFor
<1> QED BY <1>3, <1>4 DEF StripsAgree

(* Every open window is afloat or in one column of its own workspace's     *)
(* strip and of no other, and a strip remembers only windows it still has, *)
(* whatever is folded, exploded, sent, swapped or renamed.                 *)
THEOREM StripsAgreeAlways == Spec => []StripsAgree
<1>1. Inv => StripsAgree
  BY InvAgrees
<1> QED BY StripsKept, <1>1, PTL

-----------------------------------------------------------------------------
(* The focus in view: what a pass draws, what every command asks of it,    *)
(* and the strip as it stands between two steps.                           *)

LEMMA EndsAdd ==
    ASSUME NEW s \in StripSet
    PROVE  /\ Ends(s)[0] = 0
           /\ \A c \in 1..Len(s.columns) : Ends(s)[c] = Ends(s)[c - 1] + Width(s, s.columns[c])
<1>1. PICK n : n = Len(s.columns)
  OBVIOUS
<1>2. s.columns \in Seq(ColumnSet) /\ n \in Nat /\ 1..n = DOMAIN s.columns
  BY <1>1 DEF StripSet
<1>3. PICK k : k = [i \in 1..n |-> Width(s, s.columns[i])]
  OBVIOUS
<1>4. ASSUME NEW i \in 1..n PROVE k[i] = Width(s, s.columns[i]) /\ k[i] \in Int
  <2>1. k[i] = Width(s, s.columns[i]) /\ s.columns[i] \in ColumnSet
    BY <1>2, <1>3
  <2>2. Width(s, s.columns[i]) \in 1..Viewport
    BY <2>1, WidthIs
  <2> QED BY <2>1, <2>2
<1> DEFINE At(f) == f = [i \in 0..n |-> IF i = 0 THEN 0 ELSE f[i - 1] + Width(s, s.columns[i])]
<1>5. ASSUME NEW f PROVE SumUpto(k, f, n) <=> At(f)
  <2>1. \A i \in 0..n : i # 0 => i \in 1..n
    BY <1>2
  <2>2. [i \in 0..n |-> IF i = 0 THEN 0 ELSE f[i - 1] + k[i]]
          = [i \in 0..n |-> IF i = 0 THEN 0 ELSE f[i - 1] + Width(s, s.columns[i])]
    BY <1>4, <2>1
  <2> QED BY <2>2 DEF SumUpto
<1>6. Ends(s) = CHOOSE f : At(f)
  BY <1>1 DEF Ends
<1>7. PICK u : u = CHOOSE f : At(f)
  OBVIOUS
<1>8. PICK f : SumUpto(k, f, n) /\ \A i \in 0..n : f[i] \in Int
  <2>1. \A i \in 1..n : k[i] \in Int
    BY <1>4
  <2> QED BY <1>2, <2>1, SumIs
<1>9. At(u)
  <2>1. At(f)
    BY <1>5, <1>8
  <2> HIDE DEF At
  <2> QED BY <1>7, <2>1
<1>10. \A i \in 0..n : u[i] = IF i = 0 THEN 0 ELSE u[i - 1] + Width(s, s.columns[i])
  BY <1>9
<1>11. 0 \in 0..n /\ \A i \in 1..n : i \in 0..n /\ i # 0
  BY <1>2
<1>12. u[0] = 0 /\ \A i \in 1..n : u[i] = u[i - 1] + Width(s, s.columns[i])
  BY <1>10, <1>11
<1> QED BY <1>1, <1>6, <1>7, <1>12

LEMMA EndsGrow ==
    ASSUME NEW s \in StripSet
    PROVE  \A c, d \in 0..Len(s.columns) : c <= d => Ends(s)[c] <= Ends(s)[d]
<1>1. PICK n : n = Len(s.columns)
  OBVIOUS
<1>2. s.columns \in Seq(ColumnSet) /\ n \in Nat /\ 1..n = DOMAIN s.columns
  BY <1>1 DEF StripSet
<1>3. PICK e : e = Ends(s)
  OBVIOUS
<1>4. ASSUME NEW c \in 1..n PROVE e[c - 1] <= e[c]
  <2>1. s.columns[c] \in ColumnSet
    BY <1>2
  <2>2. Width(s, s.columns[c]) \in 1..Viewport
    BY <2>1, WidthIs
  <2>3. e[c] = e[c - 1] + Width(s, s.columns[c])
    BY <1>1, <1>3, EndsAdd
  <2>4. e[c - 1] \in Int
    <3>1. c - 1 \in 0..Len(s.columns)
      BY <1>1, <1>2
    <3> QED BY <1>3, <3>1, EndsAre
  <2> QED BY <2>2, <2>3, <2>4
<1>5. ASSUME NEW c \in 0..n PROVE e[c] \in Int
  BY <1>1, <1>3, EndsAre
<1>6. SUFFICES ASSUME NEW c \in 0..n PROVE \A d \in 0..n : c <= d => e[c] <= e[d]
  BY <1>1, <1>3
<1> DEFINE T == {m \in Nat : c <= m /\ m <= n => e[c] <= e[m]}
<1>7. 0 \in T
  <2>1. c <= 0 => c = 0
    BY <1>2
  <2> QED BY <1>5, <2>1
<1>8. ASSUME NEW m \in Nat, m \in T PROVE m + 1 \in T
  <2> SUFFICES ASSUME c <= m + 1, m + 1 <= n PROVE e[c] <= e[m + 1]
    OBVIOUS
  <2>1. CASE c = m + 1
    BY <1>5, <2>1
  <2>2. CASE c # m + 1
    <3>1. c <= m /\ m <= n /\ m \in 0..n /\ m + 1 \in 1..n /\ m + 1 \in 0..n /\ (m + 1) - 1 = m
      BY <1>2, <2>2
    <3>2. e[c] <= e[m]
      BY <1>8, <3>1
    <3>3. e[m] <= e[m + 1]
      BY <1>4, <3>1
    <3> QED BY <1>5, <3>1, <3>2, <3>3
  <2> QED BY <2>1, <2>2
<1>9. Nat \subseteq T
  <2> HIDE DEF T
  <2> QED BY <1>7, <1>8, SetInduction
<1>10. ASSUME NEW d \in 0..n, c <= d PROVE e[c] <= e[d]
  <2>1. d \in T
    BY <1>2, <1>9
  <2> QED BY <1>2, <1>10, <2>1
<1> QED BY <1>10

(* The strip as a pass lays it out.                                        *)
LEMMA Laid ==
    ASSUME NEW s \in StripSet, Arranged(s.columns), NEW nv \in BOOLEAN, NEW g, g = Geometry(s, nv)
    PROVE  /\ g \in Geometries /\ 0 <= g.last
           /\ g.delta = g.anchor - (Viewport - g.width) \div 2
           /\ s.columns # <<>> => /\ g.width = Width(s, s.columns[SelectedColumn(s)])
                                  /\ g.width \in 1..Viewport /\ 0 <= g.start /\ g.start <= g.last
                                  /\ g.start + g.width <= g.end
           /\ nv => g.anchor = IF s.centre # NoWindow THEN (Viewport - g.width) \div 2 ELSE 0
<1>1. PICK c : c = SelectedColumn(s)
  OBVIOUS
<1>2. PICK width : width = IF s.columns = <<>> THEN Bounded("bounded", s.ratio) ELSE Width(s, s.columns[c])
  OBVIOUS
<1>3. PICK anchor : anchor = IF Centres(s, nv) THEN (Viewport - width) \div 2
                             ELSE IF ~nv /\ c = Len(s.columns) THEN Viewport - width ELSE 0
  OBVIOUS
<1>4. g = GeometryOf(s, c, width, anchor)
  BY <1>1, <1>2, <1>3 DEF Geometry, Anchored
<1>5. /\ g.width = width /\ g.anchor = anchor /\ g.delta = anchor - (Viewport - width) \div 2
      /\ g.start = (IF s.columns = <<>> THEN 0 ELSE Start(s, c))
      /\ g.last = (IF s.columns = <<>> THEN 0 ELSE Start(s, Len(s.columns)))
      /\ g.end = Start(s, Len(s.columns) + 1)
  BY <1>4 DEF GeometryOf
<1>6. g \in Geometries
  BY GeometryIs
<1>7. nv => g.anchor = IF s.centre # NoWindow THEN (Viewport - g.width) \div 2 ELSE 0
  BY <1>3, <1>5 DEF Centres
<1>8. ASSUME s.columns # <<>>
      PROVE  /\ width \in 1..Viewport /\ 0 <= g.start /\ g.start <= g.last /\ g.start + g.width <= g.end /\ 0 <= g.last
  <2>1. PICK n : n = Len(s.columns)
    OBVIOUS
  <2>2. s.columns \in Seq(ColumnSet) /\ n \in Nat /\ 1..n = DOMAIN s.columns
    BY <2>1 DEF StripSet
  <2>3. c \in 1..n
    BY <1>1, <1>8, <2>2, SelectedColumnIs
  <2>4. s.columns[c] \in ColumnSet
    BY <2>2, <2>3
  <2>5. width = Width(s, s.columns[c]) /\ width \in 1..Viewport
    BY <1>2, <1>8, <2>4, WidthIs
  <2>6. PICK e : e = Ends(s)
    OBVIOUS
  <2>7. /\ e[0] = 0 /\ e[c] = e[c - 1] + width /\ \A i, j \in 0..n : i <= j => e[i] <= e[j]
    BY <2>1, <2>3, <2>5, <2>6, EndsAdd, EndsGrow
  <2>8. /\ c - 1 \in 0..n /\ n - 1 \in 0..n /\ c \in 0..n /\ n \in 0..n /\ 0 \in 0..n /\ (n + 1) - 1 = n
        /\ 0 <= c - 1 /\ c - 1 <= n - 1 /\ c <= n
    BY <2>2, <2>3
  <2>9. g.start = e[c - 1] /\ g.last = e[n - 1] /\ g.end = e[n]
    BY <1>5, <1>8, <2>1, <2>6, <2>8 DEF Start
  <2>10. e[0] <= e[c - 1] /\ e[c - 1] <= e[n - 1] /\ e[c] <= e[n]
    BY <2>7, <2>8
  <2>11. e[c - 1] \in Int /\ e[n - 1] \in Int
    BY <1>6, <2>9 DEF Geometries
  <2> QED BY <1>5, <2>5, <2>7, <2>9, <2>10, <2>11
<1>9. 0 <= g.last
  BY <1>5, <1>8
<1> QED BY <1>1, <1>2, <1>5, <1>6, <1>7, <1>8, <1>9

LEMMA GeometrySame ==
    ASSUME NEW s, NEW t, Kin(s, t), t.centre = s.centre, NEW nv
    PROVE  Geometry(t, nv) = Geometry(s, nv) /\ SelectedColumn(t) = SelectedColumn(s)
<1>1. t.columns = s.columns /\ t.ratio = s.ratio /\ t.fullWidth = s.fullWidth /\ t.selected = s.selected
  BY DEF Kin
<1>2. SelectedColumn(t) = SelectedColumn(s)
  <2>1. (Located(t) <=> Located(s)) /\ \A w : ColumnOf(t, w) = ColumnOf(s, w)
    BY KinLocated
  <2> QED BY <1>1, <2>1 DEF SelectedColumn
<1>3. ASSUME NEW l PROVE Width(t, l) = Width(s, l)
  BY <1>1 DEF Width, Kind
<1>4. ASSUME NEW f, NEW c PROVE (IF c = 0 THEN 0 ELSE f[c - 1] + Width(t, t.columns[c]))
                                = (IF c = 0 THEN 0 ELSE f[c - 1] + Width(s, s.columns[c]))
  BY <1>1, <1>3
<1>5. Ends(t) = Ends(s)
  BY <1>1, <1>4 DEF Ends
<1>6. ASSUME NEW c PROVE Start(t, c) = Start(s, c)
  BY <1>5 DEF Start
<1>7. Centres(t, nv) <=> Centres(s, nv)
  BY <1>1, <1>2 DEF Centres
<1>8. ASSUME NEW c, NEW width, NEW anchor PROVE GeometryOf(t, c, width, anchor) = GeometryOf(s, c, width, anchor)
  BY <1>1, <1>6 DEF GeometryOf
<1>9. ASSUME NEW c, NEW width PROVE Anchored(t, nv, c, width) = Anchored(s, nv, c, width)
  BY <1>1, <1>7, <1>8 DEF Anchored
<1>10. (IF t.columns = <<>> THEN Bounded("bounded", t.ratio) ELSE Width(t, t.columns[SelectedColumn(t)]))
       = (IF s.columns = <<>> THEN Bounded("bounded", s.ratio) ELSE Width(s, s.columns[SelectedColumn(s)]))
  BY <1>1, <1>2, <1>3
<1> QED BY <1>2, <1>9, <1>10 DEF Geometry

LEMMA ClampTwice ==
    ASSUME NEW x \in Int, NEW low \in Int, NEW high \in Int, low <= high
    PROVE  Clamp(Clamp(x, low, high), low, high) = Clamp(x, low, high)
  BY DEF Clamp

(* What a pass records.                                                    *)
Record(s, g, x) ==
    [laid |-> TRUE, selected |-> IF Located(s) THEN s.selected ELSE NoWindow,
     share |-> PlaceShare(g.anchor + g.start - x, Viewport - g.width),
     rel |-> g.start - x, slot |-> g.width, delta |-> g.delta]

LEMMA PassIs ==
    ASSUME NEW s, Good(s), NEW nv \in BOOLEAN, NEW t, t = Pass(s, nv), NEW g, g = Geometry(s, nv)
    PROVE  /\ t \in StripSet /\ Kin(s, t) /\ t.centre = s.centre /\ t.intent = Keep
           /\ t.keptView = s.keptView /\ t.keptPlace = s.keptPlace
           /\ t.offset = ResolveScroll(s, g, Spent(s, g)) /\ t.offset \in Int
           /\ t.measured = Record(s, g, t.offset) /\ t = Remeasured(s, t.offset, Record(s, g, t.offset))
<1>1. s \in StripSet /\ Arranged(s.columns)
  BY WholeIs, Tame
<1>2. g \in Geometries
  BY <1>1, GeometryIs
<1>3. PICK x : x = ResolveScroll(s, g, Spent(s, g))
  OBVIOUS
<1>4. x \in Int
  BY <1>1, <1>2, <1>3, ResolvedIs
<1>5. t = Remeasured(s, x, Record(s, g, x))
  BY <1>3 DEF Pass, PassIn, Settled, Remeasured, Record
<1>6. t \in StripSet
  BY Passes DEF Keeps, Good
<1>7. PICK m : m = Record(s, g, x)
  OBVIOUS
<1>8. /\ Kin(s, t) /\ t.centre = s.centre /\ t.intent = Keep /\ t.keptView = s.keptView /\ t.keptPlace = s.keptPlace
      /\ t.offset = x /\ t.measured = m
  BY <1>1, <1>5, <1>7 DEF Remeasured, StripSet, Kin
<1> QED BY <1>3, <1>4, <1>5, <1>6, <1>7, <1>8

LEMMA PassTwice ==
    ASSUME NEW s, Good(s), NEW nv \in BOOLEAN, NEW t, t = Pass(s, nv)
    PROVE  Pass(t, nv) = t
<1>1. PICK g : g = Geometry(s, nv)
  OBVIOUS
<1>2. /\ t \in StripSet /\ Kin(s, t) /\ t.centre = s.centre /\ t.intent = Keep
      /\ t.offset = ResolveScroll(s, g, Spent(s, g)) /\ t.offset \in Int
      /\ t.measured = Record(s, g, t.offset) /\ t = Remeasured(s, t.offset, Record(s, g, t.offset))
  BY <1>1, PassIs
<1>3. Good(t)
  BY Passes DEF Keeps
<1>4. g = Geometry(t, nv)
  BY <1>1, <1>2, GeometrySame
<1>5. PICK u : u = Pass(t, nv)
  OBVIOUS
<1>6. u.offset = ResolveScroll(t, g, Spent(t, g)) /\ u = Remeasured(t, u.offset, Record(t, g, u.offset))
  BY <1>3, <1>4, <1>5, PassIs
<1>7. Keep.kind = "keep" /\ Keep.pin = "none" /\ Keep.reveal = "none"
  BY Typed
<1>8. Spent(t, g) = t.offset /\ RevealAfter(t) = "none"
  BY <1>2, <1>7 DEF Spent, RevealAfter
<1>9. RevealOffset(g, "none", t.offset) = t.offset
  BY DEF RevealOffset
<1>10. /\ g \in Geometries /\ 0 <= g.last /\ s \in StripSet /\ Arranged(s.columns)
  <2>1. s \in StripSet /\ Arranged(s.columns)
    BY WholeIs, Tame
  <2> QED BY <1>1, <2>1, Laid
<1>11. PICK base : base = IF s.centre # NoWindow THEN g.delta ELSE 0
  OBVIOUS
<1>12. base \in Int /\ g.last + base \in Int /\ base <= g.last + base
  BY <1>10, <1>11 DEF Geometries
<1>13. PICK y : y = IF Located(s) THEN RevealOffset(g, RevealAfter(s), Spent(s, g)) ELSE Spent(s, g)
  OBVIOUS
<1>14. y \in Int
  BY <1>10, <1>13, SpentIs, RevealOffsetIs
<1>15. t.offset = Clamp(y, base, g.last + base)
  BY <1>2, <1>11, <1>13 DEF ResolveScroll, Between
<1>16. u.offset = Clamp(t.offset, base, g.last + base)
  BY <1>2, <1>6, <1>8, <1>9, <1>11 DEF ResolveScroll, Between
<1>17. u.offset = t.offset
  BY <1>12, <1>14, <1>15, <1>16, ClampTwice
<1>18. Record(t, g, t.offset) = Record(s, g, t.offset)
  <2>1. Located(t) <=> Located(s)
    BY <1>2, KinLocated
  <2> QED BY <1>2, <2>1 DEF Record, Kin
<1>19. PICK m : m = Record(s, g, t.offset)
  OBVIOUS
<1>20. u = Remeasured(t, t.offset, m) /\ t = Remeasured(s, t.offset, m)
  BY <1>2, <1>6, <1>17, <1>18, <1>19
<1>21. ASSUME NEW x, t = Remeasured(s, x, m), u = Remeasured(t, x, m) PROVE u = t
  BY <1>10, <1>21 DEF Remeasured, StripSet
<1> QED BY <1>5, <1>20, <1>21

(* Where a drawn column is on screen is within its own width of it.        *)
Sees(g, x) == g.anchor + g.start + g.width - Viewport <= x /\ x <= g.anchor + g.start

LEMMA ViewportIs == Viewport \in Int /\ Viewport \in Nat \ {0}
  BY StripAssumption

LEMMA MidIs ==
    ASSUME NEW v \in Int, NEW w \in Int, w <= v, NEW mid, mid = (v - w) \div 2
    PROVE  mid \in Int /\ 0 <= mid /\ mid <= v - w
  OBVIOUS

LEMMA SeesIs ==
    ASSUME NEW g, g.start \in Int, g.width \in Int, g.anchor \in Int, NEW x \in Int,
           0 <= g.anchor + g.start - x, g.anchor + g.start - x <= Viewport - g.width
    PROVE  Sees(g, x)
<1>1. PICK a \in Int, b \in Int, w \in Int : a = g.anchor /\ b = g.start /\ w = g.width
  OBVIOUS
<1>2. PICK v \in Int : v = Viewport
  BY ViewportIs
<1>3. 0 <= a + b - x /\ a + b - x <= v - w
  BY <1>1, <1>2
<1>4. a + b + w - v <= x /\ x <= a + b
  BY ONLY <1>3, a \in Int, b \in Int, w \in Int, v \in Int, x \in Int
<1> QED BY <1>1, <1>2, <1>4 DEF Sees

(* At the offset a place asks for, or the most there is to scroll by.      *)
LEMMA SeesPlace ==
    ASSUME NEW v \in Int, NEW w \in Int, NEW b \in Int, NEW p \in Int, NEW end \in Int, NEW most \in Int,
           NEW x, 0 <= p, p <= v - w, w <= v, b + w <= end, most = IF end > v THEN end - v ELSE 0,
           x = IF b - p < most THEN b - p ELSE most
    PROVE  x \in Int /\ 0 <= b - x /\ b - x <= v - w
  OBVIOUS

(* Between the first start and the last, whatever the clamp.               *)
LEMMA SeesClamped ==
    ASSUME NEW v \in Int, NEW w \in Int, NEW a \in Int, NEW b \in Int, NEW last \in Int, NEW y \in Int,
           0 <= a, a <= v - w, 0 <= b, b <= last, 0 <= a + b - y, a + b - y <= v - w, NEW x, x = Clamp(y, 0, last)
    PROVE  0 <= a + b - x /\ a + b - x <= v - w
  BY DEF Clamp

LEMMA RevealSees ==
    ASSUME NEW g \in Geometries, g.width <= Viewport, NEW x \in Int, NEW way \in {"either", "fromLeft", "fromRight"}
    PROVE  Sees(g, RevealOffset(g, way, x))
<1>1. g.start \in Int /\ g.width \in Int /\ g.anchor \in Int
  BY DEF Geometries
<1>2. /\ g.anchor + g.start \in Int /\ g.anchor + g.start + g.width - Viewport \in Int
      /\ g.anchor + g.start + g.width - Viewport <= g.anchor + g.start
  BY <1>1, ViewportIs
<1> QED BY <1>2 DEF RevealOffset, Sees

LEMMA ShareWithin ==
    ASSUME NEW free \in Nat, NEW v \in Shares, Part(v)
    PROVE  PlaceX(v, free) \in Int /\ 0 <= PlaceX(v, free) /\ PlaceX(v, free) <= free
<1>1. PICK a, b \in Int : a = v[1] /\ b = v[2]
  BY DEF Shares
<1>2. b > 0 /\ 0 <= a /\ a <= b
  BY <1>1 DEF Part
<1>3. PICK p : p = free * a
  OBVIOUS
<1>4. p \in Int /\ 0 <= p /\ p <= free * b
  <2>1. ASSUME NEW m \in Int, NEW n \in Int, 0 <= m, 0 <= n PROVE 0 <= m * n
    BY <2>1
  <2>2. free \in Int /\ 0 <= free /\ b - a \in Int /\ 0 <= b - a
    BY <1>1, <1>2
  <2>3. 0 <= free * a /\ 0 <= free * (b - a)
    BY <1>1, <1>2, <2>1, <2>2
  <2>4. free * (b - a) = free * b - free * a
    BY <2>2
  <2> QED BY <1>1, <1>3, <2>2, <2>3, <2>4
<1>5. p \div b \in Int /\ 0 <= p \div b
  BY <1>1, <1>2, <1>4
<1>6. p \div b <= free
  <2>1. b * (p \div b) <= p
    BY <1>1, <1>2, <1>4
  <2>2. PICK q \in Int : q = p \div b
    BY <1>5
  <2>3. b * q <= free * b
    BY <1>1, <1>4, <2>1, <2>2
  <2>4. CASE q > free
    <3>1. q - free >= 1
      BY <2>4, <2>2
    <3>2. b * (q - free) >= b
      BY <1>1, <1>2, <2>2, <3>1
    <3>3. b * (q - free) = b * q - free * b
      BY <1>1, <2>2
    <3> QED BY <1>1, <1>2, <2>2, <2>3, <3>2, <3>3
  <2> QED BY <2>2, <2>4
<1> QED BY <1>1, <1>3, <1>5, <1>6 DEF PlaceX

(* The selected column of a strip whose scroll is only revealed.           *)
Framed(s, g) ==
    /\ g \in Geometries /\ g.delta = g.anchor - (Viewport - g.width) \div 2 /\ 0 <= g.last
    /\ g.width = Width(s, s.columns[SelectedColumn(s)]) /\ g.width \in 1..Viewport
    /\ 0 <= g.start /\ g.start <= g.last /\ g.start + g.width <= g.end
    /\ g.anchor = IF s.centre # NoWindow THEN (Viewport - g.width) \div 2 ELSE 0

LEMMA LedLocated ==
    ASSUME NEW s, Good(s), s.columns # <<>>
    PROVE  s \in StripSet /\ Arranged(s.columns) /\ Located(s)
<1>1. s \in StripSet /\ Arranged(s.columns) /\ OnStrip(s, s.selected)
  BY WholeIs, Tame DEF Good, Led
<1>2. s.selected \in Windows
  BY <1>1, WhereIs
<1> QED BY <1>1, <1>2, StripAssumption DEF Located

(* What the next pass is asked for brings the selection into view.         *)
LEMMA SightedSees ==
    ASSUME NEW s, Good(s), s.columns # <<>>, Sighted(s), NEW g, Framed(s, g)
    PROVE  Sees(g, RevealOffset(g, RevealAfter(s), Spent(s, g)))
<1>1. s \in StripSet /\ Located(s)
  BY LedLocated
<1>2. /\ g \in Geometries /\ g.delta = g.anchor - (Viewport - g.width) \div 2
      /\ g.width = Width(s, s.columns[SelectedColumn(s)]) /\ g.width \in 1..Viewport
      /\ 0 <= g.start /\ g.start + g.width <= g.end
      /\ g.anchor = IF s.centre # NoWindow THEN (Viewport - g.width) \div 2 ELSE 0
  BY DEF Framed
<1>3. /\ g.start \in Int /\ g.width \in Int /\ g.anchor \in Int /\ g.delta \in Int /\ g.end \in Int
      /\ Viewport \in Int /\ g.width <= Viewport
  <2>1. g \in Geometries /\ g.width \in 1..Viewport
    BY <1>2
  <2>2. g.start \in Int /\ g.width \in Int /\ g.anchor \in Int /\ g.delta \in Int /\ g.end \in Int
    BY <2>1 DEF Geometries
  <2> QED BY <2>1, <2>2, ViewportIs
<1>4. PICK i : i = s.intent
  OBVIOUS
<1>5. i \in Intents /\ i.value \in Shares /\ i.value[1] \in Int
  BY <1>1, <1>4 DEF StripSet, Intents, Shares
<1>6. PICK mid : mid = (Viewport - g.width) \div 2
  OBVIOUS
<1>7. mid \in Int /\ 0 <= mid /\ mid <= Viewport - g.width
  BY <1>3, <1>6, MidIs
<1>8. ASSUME NEW x PROVE RevealOffset(g, "none", x) = x
  BY DEF RevealOffset
<1>9. CASE s.centre # NoWindow /\ i.kind = "center" /\ i.reveal = "none" /\ i.pin = "none"
  <2>1. Spent(s, g) = g.delta + g.start /\ RevealAfter(s) = "none"
    BY <1>1, <1>4, <1>9 DEF Spent, RevealAfter
  <2>2. g.anchor = mid /\ g.delta + g.start = g.start
    BY <1>2, <1>3, <1>6, <1>7, <1>9
  <2>3. 0 <= g.anchor + g.start - g.start /\ g.anchor + g.start - g.start <= Viewport - g.width
    BY ONLY <1>3, <1>7, <2>2
  <2>4. Sees(g, g.start)
    BY <1>3, <2>3, SeesIs
  <2> QED BY <1>8, <2>1, <2>2, <2>4
<1>10. CASE s.centre = NoWindow /\ i.kind = "align" /\ i.reveal = "none" /\ i.pin = "none"
  <2>1. Spent(s, g) = g.start /\ RevealAfter(s) = "none"
    BY <1>1, <1>4, <1>10 DEF Spent, RevealAfter
  <2>2. g.anchor = 0
    BY <1>2, <1>10
  <2> QED BY <1>2, <1>3, <1>8, <2>1, <2>2 DEF Sees
<1>11. CASE i.kind = "reveal" /\ i.pin = "none" /\ i.reveal \in {"either", "fromLeft", "fromRight"}
  <2>1. Spent(s, g) \in Int /\ RevealAfter(s) = i.reveal
    BY <1>1, <1>2, <1>4, <1>11, SpentIs DEF RevealAfter
  <2>2. g.width <= Viewport
    BY <1>2, <1>3
  <2> QED BY <1>2, <1>11, <2>1, <2>2, RevealSees
<1>12. CASE /\ s.centre = NoWindow /\ i.kind = "pin" /\ i.window = s.selected /\ i.reveal = "none"
            /\ i.pin = "place" /\ Part(i.value)
  <2>1. Spent(s, g) = PlaceOffset(g, i.value) /\ RevealAfter(s) = "none"
    BY <1>1, <1>4, <1>12 DEF Spent, RevealAfter, Pins
  <2>2. g.anchor = 0 /\ Viewport - g.width \in Nat
    <3>1. g.anchor = 0
      BY <1>2, <1>12
    <3> QED BY ONLY <1>3, <3>1
  <2>3. PICK p : p = PlaceX(i.value, Viewport - g.width)
    OBVIOUS
  <2>4. p \in Int /\ 0 <= p /\ p <= Viewport - g.width
    BY <1>5, <1>12, <2>2, <2>3, ShareWithin
  <2>5. PICK most : most = IF g.end > Viewport THEN g.end - Viewport ELSE 0
    OBVIOUS
  <2>6. PICK x : x = IF g.start - p < most THEN g.start - p ELSE most
    OBVIOUS
  <2>7. PlaceOffset(g, i.value) = x
    <3>1. g.anchor + g.start = g.start /\ g.anchor + g.end = g.end
      BY ONLY <1>3, <2>2
    <3>2. PICK at : at = g.anchor + g.start - PlaceX(i.value, Viewport - g.width)
      OBVIOUS
    <3>3. PICK m : m = IF g.anchor + g.end > Viewport THEN g.anchor + g.end - Viewport ELSE 0
      OBVIOUS
    <3>4. PlaceOffset(g, i.value) = IF at < m THEN at ELSE m
      BY ONLY <3>2, <3>3 DEF PlaceOffset
    <3>5. at = g.start - p
      <4>1. at = g.anchor + g.start - p
        BY ONLY <2>3, <3>2
      <4> QED BY ONLY <1>3, <2>2, <2>4, <4>1
    <3>6. m = most
      BY ONLY <1>3, <2>2, <2>5, <3>3
    <3> QED BY ONLY <2>6, <3>4, <3>5, <3>6
  <2>8. most \in Int
    BY ONLY <1>3, <2>5
  <2>9. x \in Int /\ 0 <= g.start - x /\ g.start - x <= Viewport - g.width
    <3>1. g.start + g.width <= g.end
      BY <1>2
    <3>2. PICK v \in Int, w \in Int, b \in Int, e \in Int : v = Viewport /\ w = g.width /\ b = g.start /\ e = g.end
      BY ONLY <1>3
    <3>3. p \in Int /\ 0 <= p /\ p <= v - w /\ w <= v /\ b + w <= e
      BY ONLY <1>3, <2>4, <3>1, <3>2
    <3>4. most \in Int /\ most = (IF e > v THEN e - v ELSE 0) /\ x = IF b - p < most THEN b - p ELSE most
      BY ONLY <2>5, <2>6, <2>8, <3>2
    <3>5. x \in Int /\ 0 <= b - x /\ b - x <= v - w
      BY ONLY <3>3, <3>4, SeesPlace, v \in Int, w \in Int, b \in Int, e \in Int
    <3> QED BY ONLY <3>2, <3>5
  <2>10. 0 <= g.anchor + g.start - x /\ g.anchor + g.start - x <= Viewport - g.width
    BY ONLY <1>3, <2>2, <2>9
  <2>11. Sees(g, x)
    BY <1>3, <2>9, <2>10, SeesIs
  <2> QED BY <1>8, <2>1, <2>7, <2>11
<1>13. CASE /\ s.centre = NoWindow /\ i.kind = "pin" /\ i.window = s.selected /\ i.reveal = "none"
            /\ i.pin = "start" /\ 0 <= i.value[1] /\ i.value[1] <= Viewport - g.width
  <2>1. Spent(s, g) = g.start - i.value[1] /\ RevealAfter(s) = "none"
    BY <1>1, <1>4, <1>13 DEF Spent, RevealAfter, Pins
  <2>2. g.anchor = 0
    BY <1>2, <1>13
  <2>3. Sees(g, g.start - i.value[1])
    <3>1. PICK v \in Int : v = i.value[1] /\ 0 <= v /\ v <= Viewport - g.width
      BY <1>5, <1>13
    <3>2. PICK x : x = g.start - v
      OBVIOUS
    <3>3. x \in Int /\ 0 <= g.anchor + g.start - x /\ g.anchor + g.start - x <= Viewport - g.width
      BY ONLY <1>3, <2>2, <3>1, <3>2, v \in Int
    <3>4. Sees(g, x)
      BY <1>3, <3>3, SeesIs
    <3> QED BY <3>1, <3>2, <3>4
  <2> QED BY <1>8, <2>1, <2>3
<1> QED BY <1>2, <1>4, <1>9, <1>10, <1>11, <1>12, <1>13 DEF Sighted

LEMMA Brought ==
    ASSUME NEW s, Good(s), s.columns # <<>>, Sighted(s), NEW g, Framed(s, g), NEW t,
           t.offset = ResolveScroll(s, g, Spent(s, g)), t.offset \in Int, t.measured = Record(s, g, t.offset)
    PROVE  InView(t)
<1>1. s \in StripSet /\ Located(s)
  BY LedLocated
<1>4. /\ g \in Geometries /\ g.delta = g.anchor - (Viewport - g.width) \div 2 /\ 0 <= g.last
      /\ g.width \in 1..Viewport /\ 0 <= g.start /\ g.start <= g.last
      /\ g.anchor = IF s.centre # NoWindow THEN (Viewport - g.width) \div 2 ELSE 0
  BY DEF Framed
<1>6. /\ g.start \in Int /\ g.width \in Int /\ g.anchor \in Int /\ g.delta \in Int /\ g.last \in Int
      /\ Viewport \in Int /\ g.width <= Viewport
  <2>1. g.start \in Int /\ g.width \in Int /\ g.anchor \in Int /\ g.delta \in Int /\ g.last \in Int
    BY <1>4 DEF Geometries
  <2> QED BY <1>4, <2>1, ViewportIs
<1>7. PICK y : y = RevealOffset(g, RevealAfter(s), Spent(s, g))
  OBVIOUS
<1>8. y \in Int /\ Sees(g, y)
  <2>1. Spent(s, g) \in Int
    BY <1>1, <1>4, SpentIs
  <2> QED BY <1>4, <1>7, <2>1, SightedSees, RevealOffsetIs
<1>9. PICK mid : mid = (Viewport - g.width) \div 2
  OBVIOUS
<1>10. mid \in Int /\ 0 <= mid /\ mid <= Viewport - g.width
  BY <1>6, <1>9, MidIs
<1>11. 0 <= g.anchor /\ g.anchor + g.width <= Viewport /\ g.delta = g.anchor - mid
  BY <1>4, <1>6, <1>9, <1>10
<1>12. (IF s.centre # NoWindow THEN g.delta ELSE 0) = 0
  BY <1>4, <1>6, <1>9, <1>10, <1>11
<1>13. t.offset = Clamp(y, 0, g.last)
  <2>1. g.last + 0 = g.last
    BY <1>6
  <2> QED BY <1>1, <1>7, <1>12, <2>1 DEF ResolveScroll, Between
<1>14. 0 <= g.anchor + g.start - t.offset /\ g.anchor + g.start - t.offset <= Viewport - g.width
  <2>1. 0 <= g.anchor + g.start - y /\ g.anchor + g.start - y <= Viewport - g.width
    <3>1. g.anchor + g.start + g.width - Viewport <= y /\ y <= g.anchor + g.start
      BY <1>8 DEF Sees
    <3> QED BY ONLY <1>6, <1>8, <3>1
  <2>2. 0 <= g.start /\ g.start <= g.last
    BY <1>4
  <2>3. 0 <= g.anchor /\ g.anchor <= Viewport - g.width
    BY ONLY <1>6, <1>11
  <2> QED BY ONLY <1>6, <1>8, <1>13, <2>1, <2>2, <2>3, SeesClamped
<1>15. t.measured.rel = g.start - t.offset /\ t.measured.slot = g.width /\ t.measured.delta = g.delta
  BY DEF Record
<1>16. ShownX(t) = g.start - t.offset + g.delta + mid
  BY <1>9, <1>15 DEF ShownX
<1>17. t.offset \in Int
  OBVIOUS
<1>18. ShownX(t) = g.anchor + g.start - t.offset
  BY ONLY <1>6, <1>10, <1>11, <1>16, <1>17
<1>19. 0 <= g.anchor + g.start - t.offset /\ (g.anchor + g.start - t.offset) + g.width <= Viewport
  BY ONLY <1>6, <1>14, <1>17
<1> QED BY <1>15, <1>18, <1>19 DEF InView

LEMMA PassInView ==
    ASSUME NEW s, Good(s), s.columns # <<>>, Sighted(s), NEW nv \in BOOLEAN, NEW t, t = Pass(s, nv), nv
    PROVE  InView(t)
<1>1. PICK g : g = Geometry(s, nv)
  OBVIOUS
<1>2. Framed(s, g)
  <2>1. s \in StripSet /\ Arranged(s.columns)
    BY LedLocated
  <2> QED BY <1>1, <2>1, Laid DEF Framed
<1>3. t.offset = ResolveScroll(s, g, Spent(s, g)) /\ t.offset \in Int /\ t.measured = Record(s, g, t.offset)
  <2>1. Good(s) /\ nv \in BOOLEAN /\ t = Pass(s, nv)
    OBVIOUS
  <2> QED BY ONLY <1>1, <2>1, PassIs
<1> QED BY <1>2, <1>3, Brought

-----------------------------------------------------------------------------
(* What a command leaves: the strip as it was, or its selection to be      *)
(* brought into view.                                                      *)

Fresh(t, nv) == t.keptView = NoView /\ (nv /\ Located(t) => Sighted(t))

LEMMA ShownFresh ==
    ASSUME NEW u, NEW nv \in BOOLEAN, NEW t, Shown(u, t, nv)
    PROVE  Fresh(t, nv)
<1>1. Located(t) <=> Located(u)
  BY KinLocated DEF Shown
<1> QED BY <1>1 DEF Shown, Fresh

LEMMA SelectsFresh ==
    ASSUME NEW s, Good(s), NEW w, NEW nv \in BOOLEAN, NEW t, t = Select(s, w, nv)
    PROVE  t = s \/ Fresh(t, nv)
<1>1. Whole(s) /\ Arranged(s.columns)
  BY WholeIs, Tame
<1>2. CASE t # s
  <2>1. OnStrip(s, w) /\ t = Show(Choosing(s, w), nv)
    BY <1>2 DEF Select, Choosing
  <2>2. w \in Tiled(s)
    BY <1>1, <2>1, TiledIs
  <2>3. PICK u : u = Choosing(s, w)
    OBVIOUS
  <2>4. u \in StripSet
    BY <1>1, <2>2, <2>3, Chosen, Tame
  <2>5. Shown(u, t, nv)
    BY <2>1, <2>3, <2>4, ShowShows
  <2> QED BY <2>5, ShownFresh
<1> QED BY <1>2

LEMMA FocusFresh ==
    ASSUME NEW s, Good(s), NEW step, NEW nv \in BOOLEAN, NEW t, t = MoveFocus(s, step, nv)
    PROVE  Fresh(t, nv)
<1>1. Whole(s) /\ s \in StripSet
  BY WholeIs, Tame
<1>2. CASE FocusTargets(s, step) = {}
  <2>1. PICK u : u = Align(s)
    OBVIOUS
  <2>2. Shown(s, u, nv)
    BY <1>1, <2>1, AlignShows
  <2>3. Good(u)
    BY <1>1, <2>2, ThenShown DEF Keeps
  <2>4. t = Select(u, SelectedOrFirst(s), nv)
    BY <1>2, <2>1 DEF MoveFocus
  <2>5. t = u \/ Fresh(t, nv)
    BY <2>3, <2>4, SelectsFresh
  <2>6. Fresh(u, nv)
    BY <2>2, ShownFresh
  <2> QED BY <2>5, <2>6
<1>3. CASE FocusTargets(s, step) # {}
  <2>1. PICK w : w = CHOOSE v \in FocusTargets(s, step) : TRUE
    OBVIOUS
  <2>2. w \in FocusTargets(s, step)
    BY <1>3, <2>1
  <2>3. w \in Tiled(s)
    BY <1>1, <2>2, TargetsAre
  <2>4. PICK u : u = Choosing(s, w)
    OBVIOUS
  <2>5. Whole(u) /\ Tiled(u) = Tiled(s) /\ u \in StripSet
    BY <1>1, <2>3, <2>4, Chosen, Tame
  <2>6. PICK way : way = IF step \in {"left", "first"} THEN "fromRight"
                         ELSE IF step \in {"right", "last"} THEN "fromLeft" ELSE "either"
    OBVIOUS
  <2>7. way \in {"either", "fromLeft", "fromRight"}
    BY <2>6
  <2>8. PICK v : v = IF nv THEN Reveal(u, way) ELSE Align(u)
    OBVIOUS
  <2>9. Shown(u, v, nv)
    <3>1. CASE nv
      <4>1. v = Reveal(u, way)
        BY <2>8, <3>1
      <4> QED BY <2>5, <2>7, <4>1, RevealShows
    <3>2. CASE ~nv
      <4>1. v = Align(u)
        BY <2>8, <3>2
      <4> QED BY <2>5, <4>1, AlignShows
    <3> QED BY <3>1, <3>2
  <2>10. Good(v)
    BY <2>5, <2>9, ThenShown DEF Keeps
  <2>11. t = Select(v, w, nv)
    BY <1>3, <2>1, <2>4, <2>6, <2>8 DEF MoveFocus, Choosing
  <2>12. t = v \/ Fresh(t, nv)
    BY <2>10, <2>11, SelectsFresh
  <2>13. Fresh(v, nv)
    BY <2>9, ShownFresh
  <2> QED BY <2>12, <2>13
<1> QED BY <1>2, <1>3

LEMMA ShowFresh ==
    ASSUME NEW u, Whole(u), NEW nv \in BOOLEAN, NEW t, t = Show(u, nv)
    PROVE  Fresh(t, nv)
<1>1. Shown(u, t, nv)
  BY Tame, ShowShows
<1> QED BY <1>1, ShownFresh

LEMMA MoveFresh ==
    ASSUME NEW s, Good(s), NEW step \in Steps, NEW nv \in BOOLEAN, NEW t, t = MoveSelection(s, step, nv)
    PROVE  t = s \/ Fresh(t, nv)
<1>1. Whole(s)
  BY WholeIs
<1>2. CASE ~Located(s) \/ Moved(s, step) = {}
  BY <1>2 DEF MoveSelection
<1>3. CASE Located(s) /\ Moved(s, step) # {}
  <2>1. PICK u : u = CHOOSE v \in Moved(s, step) : TRUE
    OBVIOUS
  <2>2. u \in Moved(s, step)
    BY <1>3, <2>1
  <2>3. Whole(u)
    BY <1>1, <1>3, <2>2, MovesOn DEF Changes
  <2>4. t = Show(u, nv)
    BY <1>3, <2>1 DEF MoveSelection
  <2> QED BY <2>3, <2>4, ShowFresh
<1> QED BY <1>2, <1>3

LEMMA CenterFresh ==
    ASSUME NEW s, Good(s), NEW nv \in BOOLEAN, NEW t, t = Center(s)
    PROVE  Fresh(t, nv)
<1>1. s \in StripSet /\ s.centre \in {NoWindow, s.selected}
  BY WholeIs, Tame DEF HeldFor
<1>2. Shown(s, t, nv)
  BY <1>1, CenterShows
<1> QED BY <1>2, ShownFresh

LEMMA RescrollFresh ==
    ASSUME NEW u, Whole(u), NEW w, w \in Tiled(u), NEW places, PlacesOK(places),
           NEW nv \in BOOLEAN, NEW t, t = RescrollAfterWidth(Choosing(u, w), w, places, nv)
    PROVE  Fresh(t, nv)
<1>1. PICK v : v = Choosing(u, w)
  OBVIOUS
<1>2. Whole(v) /\ v.selected = w
  BY <1>1, Chosen
<1>3. v \in StripSet /\ w \in Windows
  BY <1>2, Tame
<1>4. Shown(v, t, nv)
  BY <1>1, <1>2, <1>3, RescrollShows
<1> QED BY <1>4, ShownFresh

LEMMA WidthFresh ==
    ASSUME NEW s, Good(s), Lengths(s), NEW w, w \in Tiled(s), NEW kind, NEW x \in Int, NEW nv \in BOOLEAN,
           NEW t, t = GiveWidth(s, w, kind, x, nv)
    PROVE  Fresh(t, nv)
<1>1. Whole(s) /\ s \in StripSet /\ w \in Windows
  BY WholeIs, Tame
<1>2. PICK u : u = SetColumnWidth(s, w, kind, x)
  OBVIOUS
<1>3. Changes(s, u)
  BY <1>1, <1>2, ColumnWidthSet
<1>4. PICK places : places = IF nv THEN PlaceOf(s, w) ELSE {}
  OBVIOUS
<1>5. PlacesOK(places)
  <2>1. PlacesOK(PlaceOf(s, w)) /\ PlacesOK({})
    BY <1>1, PlacesKept
  <2> QED BY <1>4, <2>1
<1>6. t = RescrollAfterWidth(Choosing(u, w), w, places, nv)
  BY <1>2, <1>4 DEF GiveWidth, Choosing
<1>7. Whole(u) /\ w \in Tiled(u)
  BY <1>3 DEF Changes
<1> QED BY <1>5, <1>6, <1>7, RescrollFresh

LEMMA FullWidthFresh ==
    ASSUME NEW s, Good(s), Lengths(s), NEW w, NEW nv \in BOOLEAN, NEW t, t = ToggleFullWidth(s, w, nv)
    PROVE  (t = s /\ ~OnStrip(s, w)) \/ Fresh(t, nv)
<1>1. Whole(s) /\ s \in StripSet /\ Arranged(s.columns)
  BY WholeIs, Tame
<1>2. CASE ~OnStrip(s, w)
  BY <1>2 DEF ToggleFullWidth
<1>3. CASE OnStrip(s, w)
  <2>1. w \in Tiled(s) /\ w \in Windows
    BY <1>1, <1>3, TiledIs
  <2>2. PICK u : u = IF w \notin s.fullWidth THEN EnterFullWidth(s, w) ELSE LeaveFullWidthRestoring(s, w)
    OBVIOUS
  <2>3. Changes(s, u)
    <3>1. CASE w \notin s.fullWidth
      BY <1>1, <2>1, <2>2, <3>1, Entered
    <3>2. CASE w \in s.fullWidth
      BY <1>1, <2>1, <2>2, <3>2, LeftRestoring
    <3> QED BY <3>1, <3>2
  <2>4. PICK places : places = IF ~nv THEN {} ELSE IF w \notin s.fullWidth THEN PlaceOf(s, w) ELSE KeptPlaceOf(s, w)
    OBVIOUS
  <2>5. PlacesOK(places)
    <3>1. PlacesOK(PlaceOf(s, w)) /\ PlacesOK(KeptPlaceOf(s, w)) /\ PlacesOK({})
      BY <1>1, <2>1, PlacesKept
    <3> QED BY <2>4, <3>1
  <2>6. t = RescrollAfterWidth(Choosing(u, w), w, places, nv)
    BY <1>3, <2>2, <2>4 DEF ToggleFullWidth, Choosing
  <2>7. Whole(u) /\ w \in Tiled(u)
    BY <2>1, <2>3 DEF Changes
  <2> QED BY <2>5, <2>6, <2>7, RescrollFresh
<1> QED BY <1>2, <1>3

LEMMA PresetFresh ==
    ASSUME NEW s, Good(s), Lengths(s), NEW nv \in BOOLEAN, NEW t, t = CyclePreset(s, nv)
    PROVE  t = s \/ Fresh(t, nv)
<1>1. Whole(s) /\ Arranged(s.columns)
  BY WholeIs, Tame
<1>2. PICK w : w = SelectedOrFirst(s)
  OBVIOUS
<1>3. CASE ~OnStrip(s, w) \/ Presets = <<>>
  BY <1>2, <1>3 DEF CyclePreset
<1>4. CASE OnStrip(s, w) /\ Presets # <<>>
  <2>1. w \in Tiled(s)
    BY <1>1, <1>4, TiledIs
  <2>2. PICK x : x = NextPreset(WidthNow(s, w))
    OBVIOUS
  <2>3. x \in Int
    BY <1>1, <1>4, <2>1, <2>2, WidthNowIs, PresetIs
  <2>4. t = GiveWidth(s, w, IF x = Viewport THEN "unbounded" ELSE "bounded", x, nv)
    BY <1>2, <1>4, <2>2 DEF CyclePreset
  <2> QED BY <2>1, <2>3, <2>4, WidthFresh
<1> QED BY <1>3, <1>4

(* With nothing selected, a resize changes the widths the strip gives.     *)
LEMMA ResizeFresh ==
    ASSUME NEW s, Good(s), Lengths(s), NEW amount \in Int, NEW nv \in BOOLEAN, NEW t, t = ResizeBy(s, amount, nv)
    PROVE  t = s \/ Fresh(t, nv) \/ t.columns = <<>>
<1>1. Whole(s) /\ Arranged(s.columns) /\ s.ratio \in Int
  BY WholeIs, Tame
<1>2. PICK w : w = s.selected
  OBVIOUS
<1>3. PICK now : now = WidthNow(s, w)
  OBVIOUS
<1>4. CASE ~Located(s)
  <2>1. t = Rerated(s, Bounded("bounded", s.ratio + amount))
    BY <1>4 DEF ResizeBy, Rerated
  <2>2. s \in StripSet
    BY <1>1, Tame
  <2>3. t.columns = s.columns
    BY <2>1, <2>2 DEF Rerated, StripSet
  <2> QED BY <1>4, <2>3, LedLocated
<1>6. CASE Located(s) /\ t # s
  <2>1. w \in Tiled(s)
    BY <1>1, <1>2, <1>6, TiledIs DEF Located
  <2>2. now \in Int
    BY <1>1, <1>3, <2>1, WidthNowIs
  <2>3. Bounded("bounded", now + amount) \in Int
    BY <2>2, BoundedIs
  <2>4. t = GiveWidth(s, w, "bounded", Bounded("bounded", now + amount), nv)
    BY <1>2, <1>3, <1>6 DEF ResizeBy
  <2> QED BY <2>1, <2>3, <2>4, WidthFresh
<1> QED BY <1>4, <1>6

LEMMA ExplodeFresh ==
    ASSUME NEW s, Good(s), NEW nv \in BOOLEAN, NEW t, t = Explode(s, nv)
    PROVE  t = s \/ Fresh(t, nv)
  BY Explodes, ShowFresh

(* Under "never", revealed whatever the width it is given.                 *)
Aimed(t, nv) ==
    /\ t.keptView = NoView
    /\ nv => /\ t.centre = NoWindow /\ t.intent.kind = "reveal" /\ t.intent.reveal = "either"
             /\ t.intent.pin = "none"

LEMMA AimedFresh == ASSUME NEW t, NEW nv, Aimed(t, nv) PROVE Fresh(t, nv)
  BY DEF Aimed, Fresh, Sighted

LEMMA InsertAims ==
    ASSUME NEW s, Whole(s), NEW w \in Windows, w \notin Tiled(s), NEW nv \in BOOLEAN, NEW t, t = Insert(s, w, nv)
    PROVE  Aimed(t, nv)
<1>1. PICK v : v = [s EXCEPT !.columns = InsertAt(@, IF Located(s) THEN ColumnOf(s, s.selected) + 1
                                                     ELSE IF s.columns = <<>> THEN 1 ELSE 2, Lone(w)), !.selected = w]
  OBVIOUS
<1>2. t = Show(v, nv)
  BY <1>1 DEF Insert
<1>3. v \in StripSet
  <2>1. s \in StripSet /\ Arranged(s.columns)
    BY Tame
  <2>2. PICK at : at = IF Located(s) THEN ColumnOf(s, s.selected) + 1 ELSE IF s.columns = <<>> THEN 1 ELSE 2
    OBVIOUS
  <2>3. at \in 1..(Len(s.columns) + 1)
    BY <2>1, <2>2, InsertsAt
  <2>4. PICK u : u = Put(s, at, w)
    OBVIOUS
  <2>5. u \in StripSet
    BY <2>1, <2>3, <2>4, LonePut
  <2>6. v = Choosing(u, w)
    BY <1>1, <2>2, <2>4 DEF Put, Choosing
  <2>7. w \in OptWindow
    BY DEF OptWindow
  <2> QED BY <2>5, <2>6, <2>7, ChosenIs
<1>4. t.keptView = NoView
  BY <1>2, <1>3, ShowShows DEF Shown
<1>5. ASSUME nv
      PROVE  /\ t.centre = NoWindow /\ t.intent.kind = "reveal" /\ t.intent.reveal = "either"
             /\ t.intent.pin = "none"
  <2>1. t = Reveal(v, "either") /\ "either" \in {"either", "fromLeft", "fromRight"}
    BY <1>2, <1>5 DEF Show
  <2>2. /\ Scrolls(v, t, NoWindow, Wish("reveal", "either"))
        /\ t.intent.kind = "reveal" /\ t.intent.reveal = "either" /\ t.intent.pin = "none"
    BY <1>3, <2>1, Reveals
  <2> QED BY <2>2 DEF Scrolls
<1> QED BY <1>4, <1>5 DEF Aimed

LEMMA WidthAims ==
    ASSUME NEW s, Whole(s), NEW nv, Aimed(s, nv), NEW w, NEW width \in WidthSet, NEW t, t = WithWidth(s, w, width)
    PROVE  Aimed(t, nv)
<1>1. s \in StripSet /\ Arranged(s.columns)
  BY Tame
<1>2. CASE t = s
  BY <1>2
<1>3. ASSUME OnStrip(s, w), t = EnterFullWidth(s, w) PROVE Aimed(t, nv)
  <2>1. PICK u : u = SplitOut(s, w, "left")
    OBVIOUS
  <2>2. w \in Tiled(s)
    BY <1>1, <1>3, TiledIs
  <2>3. u \in StripSet /\ SameRest(s, u)
    <3>1. "left" \in {"left", "right"}
      OBVIOUS
    <3> QED BY <1>1, <2>1, <2>2, <3>1, SplitsOut
  <2>4. PICK f, o : t = [u EXCEPT !.fullWidth = f, !.widthOrigins[w] = o]
    <3>1. t = [u EXCEPT !.fullWidth = u.fullWidth \cup {w},
                        !.widthOrigins[w] = IF Stacked(s, w) THEN OriginOf(s, w) ELSE u.widthOrigins[w]]
      BY <1>3, <2>1 DEF EnterFullWidth
    <3> QED BY <3>1
  <2>5. t.keptView = u.keptView /\ t.intent = u.intent /\ t.centre = u.centre
    BY <2>3, <2>4 DEF StripSet
  <2> QED BY <2>3, <2>5 DEF Aimed, SameRest
<1>4. ASSUME OnStrip(s, w), t = Rewidthed(s, ColumnOf(s, w), width) PROVE Aimed(t, nv)
  <2>1. t.keptView = s.keptView /\ t.intent = s.intent /\ t.centre = s.centre
    BY <1>1, <1>4 DEF StripSet, Rewidthed
  <2> QED BY <2>1 DEF Aimed
<1> QED BY <1>2, <1>3, <1>4 DEF WithWidth, SetCarriedWidth, Rewidthed

-----------------------------------------------------------------------------
(* Widths a fold leaves.                                                   *)

(* A column's width but for full width is its own.                         *)
LEMMA SameWidth ==
    ASSUME NEW s, NEW k \in ColumnSet, NEW t, NEW l \in ColumnSet, t.ratio = s.ratio, l.width = k.width,
           \A v \in s.fullWidth : ~In(k, v), \A v \in t.fullWidth : ~In(l, v)
    PROVE  Width(t, l) = Width(s, k)
<1>1. Kind(t, l) = Kind(s, k)
  BY HoldsIn DEF Kind
<1> QED BY <1>1 DEF Width

LEMMA NoneFull ==
    ASSUME NEW s, Whole(s), NEW w, w \in Tiled(s), Stacked(s, w), NEW v \in s.fullWidth
    PROVE  ~In(s.columns[ColumnOf(s, w)], v)
<1>1. s \in StripSet /\ Arranged(s.columns) /\ v \in Soles(s)
  BY Tame
<1>2. v \in Tiled(s) /\ ~Stacked(s, v)
  BY <1>1 DEF Soles
<1>3. OnStrip(s, w) /\ OnStrip(s, v)
  BY <1>1, <1>2, TiledIs
<1>4. ColumnOf(s, w) \in DOMAIN s.columns
  BY <1>1, <1>3, WhereIs
<1>5. In(s.columns[ColumnOf(s, w)], v) => ColumnOf(s, w) = ColumnOf(s, v)
  BY <1>1, <1>3, <1>4, WhereIs
<1> QED BY <1>2, <1>5 DEF Stacked, Stack

(* Every column a press to that side goes to is x wide.                    *)
Facing(s, side, x) == \A d \in ColumnToward(s, side) : Width(s, s.columns[d]) = x

LEMMA KinFacing ==
    ASSUME NEW s, NEW t, Kin(s, t), NEW side, NEW x
    PROVE  Facing(s, side, x) => Facing(t, side, x)
<1>1. t.columns = s.columns /\ t.selected = s.selected
  BY DEF Kin
<1>2. ColumnOf(t, t.selected) = ColumnOf(s, s.selected)
  BY <1>1, KinLocated
<1>3. ColumnToward(t, side) = ColumnToward(s, side)
  BY ONLY <1>1, <1>2 DEF ColumnToward
<1>4. \A l : Width(t, l) = Width(s, l)
  BY DEF Kin, Width, Kind
<1> QED BY <1>1, <1>3, <1>4 DEF Facing

LEMMA TowardIs ==
    ASSUME NEW s, NEW side \in {"left", "right"}, NEW d \in ColumnToward(s, side), NEW w, w = s.selected
    PROVE  d \in DOMAIN s.columns /\ (IF side = "left" THEN d = ColumnOf(s, w) - 1 ELSE d = ColumnOf(s, w) + 1)
  BY DEF ColumnToward

(* The column a window was folded out of, next to it on that side.         *)
LEMMA FoldedOut ==
    ASSUME NEW s, Whole(s), NEW w, w = s.selected, w \in Tiled(s), Stacked(s, w), NEW side \in {"left", "right"},
           NEW t, t = FoldOut(s, w, side)
    PROVE  Facing(t, side, Width(s, s.columns[ColumnOf(s, w)]))
<1>1. s \in StripSet /\ Arranged(s.columns) /\ w \in Windows /\ OnStrip(s, w)
  BY Tame, TiledIs
<1>2. PICK c : c = ColumnOf(s, w)
  OBVIOUS
<1>3. PICK out : out = TakeOut(s, w)
  OBVIOUS
<1>4. out \in StripSet /\ SameRest(s, out) /\ Arranged(out.columns) /\ (\A v : OnStrip(out, v) <=> OnStrip(s, v) /\ v # w)
  BY <1>1, <1>2, <1>3, TakenOut
<1>5. /\ Len(out.columns) = Len(s.columns)
      /\ out.columns[c] \in ColumnSet /\ out.columns[c].width = s.columns[c].width
      /\ \A v : In(out.columns[c], v) <=> In(s.columns[c], v) /\ v # w
  <2>1. Stacked(s, w)
    OBVIOUS
  <2> QED BY ONLY <2>1, <1>1, <1>2, <1>3, TakenOut, SMTT(30)
<1>6. c \in 1..Len(s.columns) /\ Len(s.columns) \in Nat /\ s.columns[c] \in ColumnSet
  <2>1. c \in DOMAIN s.columns /\ s.columns[c] \in ColumnSet
    BY <1>1, <1>2, WhereIs
  <2> QED BY <1>1, <2>1 DEF Arranged
<1>7. PICK at : at = IF side = "left" THEN c + 1 ELSE c
  OBVIOUS
<1>8. at \in 1..(Len(out.columns) + 1)
  BY <1>5, <1>6, <1>7
<1>9. PICK k : k = Lone(w)
  OBVIOUS
<1>10. k \in ColumnSet /\ Single(k.windows) /\ \A v : In(k, v) <=> v = w
  BY <1>1, <1>9, LoneIs
<1>11. Apart(k, out.columns)
  BY <1>4, <1>10, OnStripIs DEF Apart
<1>12. PICK new : new = InsertAt(out.columns, at, k)
  OBVIOUS
<1>13. /\ Arranged(new) /\ Len(new) = Len(out.columns) + 1
       /\ \A i \in 1..(Len(out.columns) + 1) :
             new[i] = IF i < at THEN out.columns[i] ELSE IF i = at THEN k ELSE out.columns[i - 1]
  BY <1>4, <1>8, <1>10, <1>11, <1>12, ColumnInserted
<1>14. PICK u : u = [out EXCEPT !.columns = new]
  OBVIOUS
<1>15. u \in StripSet /\ SameRest(out, u) /\ u.columns = new
  BY <1>4, <1>13, <1>14, Recolumned
<1>16. u = SplitOut(s, w, IF side = "left" THEN "right" ELSE "left")
  <2>1. c + (IF (IF side = "left" THEN "right" ELSE "left") = "left" THEN 0 ELSE 1) = at
    BY <1>6, <1>7
  <2> QED BY <1>2, <1>3, <1>9, <1>12, <1>14, <2>1 DEF SplitOut, PullOut
<1>17. PICK o : t = [u EXCEPT !.foldOrigins[w] = o]
  BY <1>16 DEF FoldOut
<1>18. t.columns = new /\ t.selected = w /\ t.ratio = s.ratio /\ t.fullWidth = s.fullWidth
  <2>1. t.columns = u.columns /\ t.selected = u.selected /\ t.ratio = u.ratio /\ t.fullWidth = u.fullWidth
    BY <1>15, <1>17 DEF StripSet
  <2> QED BY <1>4, <1>15, <2>1 DEF SameRest
<1>19. at \in DOMAIN new /\ DOMAIN new = 1..(Len(s.columns) + 1)
  BY <1>5, <1>8, <1>13 DEF Arranged
<1>20. new[at] = k
  BY <1>8, <1>13
<1>21. OnStrip(t, w)
  BY <1>10, <1>13, <1>18, <1>19, <1>20, OnStripIs
<1>22. ColumnOf(t, w) = at
  <2>1. In(t.columns[at], w)
    BY <1>10, <1>18, <1>20
  <2> QED BY <1>13, <1>18, <1>19, <1>21, <2>1, WhereIs
<1>23. ASSUME NEW d \in ColumnToward(t, side) PROVE t.columns[d] = out.columns[c]
  <2>1. d \in 1..(Len(out.columns) + 1) /\ (IF side = "left" THEN d = at - 1 ELSE d = at + 1)
    BY <1>5, <1>18, <1>19, <1>22, TowardIs
  <2>2. new[d] = IF d < at THEN out.columns[d] ELSE IF d = at THEN k ELSE out.columns[d - 1]
    BY <1>13, <2>1
  <2>3. CASE side = "left"
    <3>1. d = c /\ d < at
      BY <1>6, <1>7, <2>1, <2>3
    <3> QED BY <1>18, <2>2, <3>1
  <2>4. CASE side # "left"
    <3>1. d - 1 = c /\ ~(d < at) /\ d # at
      BY <1>6, <1>7, <2>1, <2>4
    <3> QED BY <1>18, <2>2, <3>1
  <2> QED BY <2>3, <2>4
<1>24. \A v \in s.fullWidth : ~In(s.columns[c], v)
  BY <1>2, NoneFull
<1>25. \A v \in t.fullWidth : ~In(out.columns[c], v)
  BY <1>5, <1>18, <1>24
<1>26. Width(t, out.columns[c]) = Width(s, s.columns[c])
  BY <1>5, <1>6, <1>18, <1>24, <1>25, SameWidth
<1> QED BY <1>2, <1>23, <1>26 DEF Facing

(* Not made to leave full width, a column has none at it.                  *)
LEMMA AloneAlready ==
    ASSUME NEW s \in StripSet, Arranged(s.columns), NEW c \in DOMAIN s.columns, Len(s.columns[c].windows) > 1,
           NEW t, t = KeepFullWidthAlone(s, c), t.keptView.window # NoWindow
    PROVE  t = s /\ \A v \in s.fullWidth : ~In(s.columns[c], v)
<1>1. PICK maximised : maximised = {w \in s.fullWidth : Holds(s.columns[c], w)}
  OBVIOUS
<1>2. s.columns[c] \in ColumnSet /\ Len(s.columns[c].windows) \in Nat
  BY ColumnFacts
<1>3. CASE maximised = {}
  <2>1. t = s
    BY <1>1, <1>3 DEF KeepFullWidthAlone
  <2> QED BY <1>1, <1>2, <1>3, <2>1, HoldsIn
<1>4. CASE maximised # {}
  <2>1. PICK wo : wo = [w \in Windows |-> IF w \in maximised THEN NoOrigin ELSE s.widthOrigins[w]]
    OBVIOUS
  <2>2. PICK u : u = [s EXCEPT !.fullWidth = s.fullWidth \ maximised, !.widthOrigins = wo]
    OBVIOUS
  <2>3. t = Unpin(u)
    <3>1. ~(Len(s.columns[c].windows) <= 1)
      BY <1>2
    <3> QED BY <1>1, <1>4, <2>1, <2>2, <3>1 DEF KeepFullWidthAlone
  <2>4. wo \in Origins /\ s.fullWidth \ maximised \subseteq Windows
    BY <2>1, NoOriginIs DEF StripSet, Origins
  <2>5. u \in StripSet
    BY <2>2, <2>4 DEF StripSet
  <2>6. t.keptView = NoView
    BY <2>3, <2>5, UnpinIs
  <2> QED BY <2>6, Typed
<1> QED BY <1>3, <1>4

LEMMA TakenAlone ==
    ASSUME NEW s \in StripSet, Arranged(s.columns), NEW w, OnStrip(s, w), ~Stacked(s, w), NEW t, t = TakeOut(s, w)
    PROVE  Among(t.columns) \subseteq Among(s.columns)
<1>1. PICK c : c = ColumnOf(s, w)
  OBVIOUS
<1>2. Among(t.columns) = Among(s.columns) \ {s.columns[c]}
  BY <1>1, TakenOut
<1> QED BY <1>2

(* A window put back among the rows of a column, none of them at full      *)
(* width: as wide as the column was.                                       *)
LEMMA JoinedWidth ==
    ASSUME NEW s, Whole(s), NEW w, w \in Tiled(s), ~Stacked(s, w), NEW out, out = TakeOut(s, w),
           NEW c \in DOMAIN out.columns, NEW rows \in Seq(Windows), Len(rows) > 1, Single(rows),
           \A v : Lists(rows, v) <=> v = w \/ In(out.columns[c], v),
           NEW t, t = KeepFullWidthAlone(Rerowed(out, c, rows), c), t.keptView.window # NoWindow,
           NEW k \in Among(s.columns), k = out.columns[c]
    PROVE  /\ t.keptView = s.keptView /\ t.centre = s.centre /\ ColumnOf(t, w) \in DOMAIN t.columns
           /\ Width(t, t.columns[ColumnOf(t, w)]) = Width(s, k)
<1>1. s \in StripSet /\ Arranged(s.columns) /\ OnStrip(s, w)
  BY Tame, TiledIs
<1>2. /\ out \in StripSet /\ SameRest(s, out) /\ Arranged(out.columns) /\ Tiled(out) = Tiled(s) \ {w}
  BY <1>1, TakenApart
<1>5. PICK r : r = Rerowed(out, c, rows)
  OBVIOUS
<1>6. \A v : Lists(rows, v) /\ v \in Tiled(out) => In(out.columns[c], v)
  BY <1>2
<1>7. rows # <<>>
  OBVIOUS
<1>8. /\ r \in StripSet /\ SameRest(out, r) /\ Arranged(r.columns) /\ Len(r.columns) = Len(out.columns)
      /\ r.columns[c].windows = rows /\ r.columns[c].width = out.columns[c].width
      /\ \A v : In(r.columns[c], v) <=> Lists(rows, v)
  BY <1>2, <1>5, <1>6, <1>7, RowsGiven
<1>9. c \in DOMAIN r.columns
  BY <1>2, <1>8 DEF Arranged
<1>10. t = r /\ \A v \in r.fullWidth : ~In(r.columns[c], v)
  <2>1. t = KeepFullWidthAlone(r, c) /\ Len(r.columns[c].windows) > 1
    BY <1>5, <1>8
  <2> QED BY <1>8, <1>9, <2>1, AloneAlready
<1>11. In(r.columns[c], w)
  BY <1>8
<1>12. ColumnOf(r, w) = c
  <2>1. OnStrip(r, w)
    BY <1>8, <1>9, <1>11, OnStripIs
  <2> QED BY <1>8, <1>9, <1>11, <2>1, WhereIs
<1>13. r.fullWidth = s.fullWidth /\ r.ratio = s.ratio /\ r.keptView = s.keptView /\ r.centre = s.centre
  BY <1>2, <1>8 DEF SameRest
<1>14. \A v \in s.fullWidth : ~In(k, v)
  BY <1>8, <1>10, <1>13
<1>15. r.columns[c] \in ColumnSet /\ k \in ColumnSet
  BY <1>1, <1>8, <1>9, ColumnFacts DEF Among
<1>16. Width(r, r.columns[c]) = Width(s, k)
  BY <1>8, <1>10, <1>13, <1>14, <1>15, SameWidth
<1> QED BY <1>9, <1>10, <1>12, <1>13, <1>16

LEMMA RestoredWidth ==
    ASSUME NEW s, Whole(s), NEW w, w \in Tiled(s), ~Stacked(s, w), NEW origin, origin.anchor # w,
           OnStrip(s, origin.anchor), NEW t, t = Restore(s, w, origin), t.keptView.window # NoWindow
    PROVE  /\ t.keptView = s.keptView /\ t.centre = s.centre /\ ColumnOf(t, w) \in DOMAIN t.columns
           /\ Width(t, t.columns[ColumnOf(t, w)]) = Width(s, s.columns[ColumnOf(s, origin.anchor)])
<1>0. s \in StripSet /\ Arranged(s.columns) /\ OnStrip(s, w)
  BY Tame, TiledIs
<1>1. w \in Tiled(s) /\ origin.anchor \in Tiled(s) /\ w \in Windows
  BY <1>0, TiledIs
<1>2. PICK out : out = TakeOut(s, w)
  OBVIOUS
<1>3. out \in StripSet /\ Arranged(out.columns) /\ Tiled(out) = Tiled(s) \ {w}
  BY <1>0, <1>1, <1>2, TakenApart
<1>4. OnStrip(out, origin.anchor)
  BY <1>1, <1>3, TiledIs
<1>5. PICK c : c = ColumnOf(out, origin.anchor)
  OBVIOUS
<1>6. PICK at : at = RowOf(out, origin.anchor) + (IF origin.below THEN 1 ELSE 0)
  OBVIOUS
<1>7. PICK ws : ws = out.columns[c].windows
  OBVIOUS
<1>8. /\ c \in DOMAIN out.columns /\ ws \in Seq(Windows) /\ Single(ws) /\ Len(ws) \in Nat
      /\ RowOf(out, origin.anchor) \in 1..Len(ws) /\ out.columns[c] \in Among(out.columns)
      /\ In(out.columns[c], origin.anchor)
  BY <1>3, <1>4, <1>5, <1>7, WhereIs
<1>9. at \in 1..(Len(ws) + 1)
  BY <1>6, <1>8
<1>10. ~In(out.columns[c], w)
  BY <1>3, <1>8, TiledIs
<1>11. ~Lists(ws, w)
  BY <1>7, <1>10 DEF In, Lists
<1>12. PICK rows : rows = InsertAt(ws, at, w)
  OBVIOUS
<1>13. /\ rows \in Seq(Windows) /\ Single(rows) /\ Len(rows) = Len(ws) + 1
       /\ \A v : Lists(rows, v) <=> v = w \/ Lists(ws, v)
  BY <1>1, <1>8, <1>9, <1>11, <1>12, RowPut
<1>14. Len(rows) > 1
  <2>1. PICK n \in Nat : n = Len(ws)
    BY <1>8
  <2>2. PICK i : i \in 1..n
    BY <1>8, <2>1
  <2>3. n + 1 > 1
    BY <2>2
  <2> QED BY <1>13, <2>1, <2>3
<1>15. \A v : Lists(rows, v) <=> v = w \/ In(out.columns[c], v)
  BY <1>7, <1>13 DEF In, Lists
<1>16. t = KeepFullWidthAlone(Rerowed(out, c, rows), c)
  <2>1. t = KeepFullWidthAlone([out EXCEPT !.columns[c].windows = InsertAt(@, at, w)], c)
    BY <1>0, <1>2, <1>5, <1>6 DEF Restore
  <2>2. [out EXCEPT !.columns[c].windows = InsertAt(@, at, w)] = [out EXCEPT !.columns[c].windows = rows]
    BY <1>7, <1>12
  <2> QED BY <2>1, <2>2 DEF Rerowed
<1>17. PICK target : target = ColumnOf(s, origin.anchor)
  OBVIOUS
<1>18. PICK k : k = out.columns[c]
  OBVIOUS
<1>19. k \in Among(s.columns)
  BY <1>0, <1>2, <1>8, <1>18, TakenAlone
<1>20. k = s.columns[target]
  <2>1. PICK d \in DOMAIN s.columns : k = s.columns[d]
    BY <1>19 DEF Among
  <2>2. In(s.columns[d], origin.anchor)
    BY <1>8, <1>18, <2>1
  <2>3. d = target
    BY <1>0, <1>17, <2>2, WhereIs
  <2> QED BY <2>1, <2>3
<1>21. /\ t.keptView = s.keptView /\ t.centre = s.centre /\ ColumnOf(t, w) \in DOMAIN t.columns
       /\ Width(t, t.columns[ColumnOf(t, w)]) = Width(s, k)
  BY <1>2, <1>8, <1>13, <1>14, <1>15, <1>16, <1>18, <1>19, JoinedWidth
<1> QED BY <1>17, <1>20, <1>21

(* Folded back in beside the window it was taken from, a window's column   *)
(* is as wide as that one's: or no view is kept any more.                  *)
LEMMA FoldedInWidth ==
    ASSUME NEW s, Whole(s), NEW w, w \in Tiled(s), ~Stacked(s, w), NEW target \in DOMAIN s.columns,
           target # ColumnOf(s, w), NEW t, t = FoldIn(s, w, target), t.keptView.window # NoWindow
    PROVE  /\ t.keptView = s.keptView /\ t.centre = s.centre /\ ColumnOf(t, w) \in DOMAIN t.columns
           /\ Width(t, t.columns[ColumnOf(t, w)]) = Width(s, s.columns[target])
<1>1. s \in StripSet /\ Arranged(s.columns) /\ w \in Windows /\ w # NoWindow /\ s.foldOrigins \in Origins
  BY TiledIs, Tame
<1>2. PICK origin : origin = s.foldOrigins[w]
  OBVIOUS
<1>3. origin.anchor # w
  <2>1. CASE origin = NoOrigin
    BY <1>1, <2>1 DEF NoOrigin
  <2>2. CASE origin # NoOrigin
    BY <1>1, <1>2, <2>2 DEF Whole, Fits
  <2> QED BY <2>1, <2>2
<1>4. PICK spent : spent = [s EXCEPT !.foldOrigins[w] = NoOrigin]
  OBVIOUS
<1>5. /\ Changes(s, spent) /\ spent.columns = s.columns /\ spent.fullWidth = s.fullWidth
      /\ spent.keptView = s.keptView /\ spent.centre = s.centre
  <2>1. PICK origins : origins = [s.foldOrigins EXCEPT ![w] = NoOrigin]
    OBVIOUS
  <2>2. origins \in Origins
    BY <1>1, <2>1, NoOriginIs DEF Origins
  <2>3. Fits(s, origins)
    <3>1. \A v \in Windows : origins[v] = IF v = w THEN NoOrigin ELSE s.foldOrigins[v]
      BY <1>1, <2>1 DEF Origins
    <3> QED BY <3>1 DEF Whole, Fits
  <2>4. spent = Refolded(s, origins)
    BY <1>4, <2>1 DEF Refolded
  <2>5. spent.fullWidth = s.fullWidth /\ spent.keptView = s.keptView /\ spent.centre = s.centre
    BY <1>1, <2>4 DEF Refolded, StripSet
  <2> QED BY <2>2, <2>3, <2>4, <2>5, Refolds
<1>6. Whole(spent) /\ spent.ratio = s.ratio /\ w \in Tiled(spent)
  BY <1>5 DEF Changes
<1>7. /\ \A v : ColumnOf(spent, v) = ColumnOf(s, v) /\ (Stacked(spent, v) <=> Stacked(s, v))
      /\ \A v : OnStrip(spent, v) <=> OnStrip(s, v)
      /\ \A l : Width(spent, l) = Width(s, l)
  BY <1>5, <1>6 DEF ColumnOf, Stacked, Stack, OnStrip, Width, Kind
<1>8. CASE OnStrip(s, origin.anchor) /\ ColumnOf(s, origin.anchor) = target
  <2>1. t = Restore(spent, w, origin)
    BY <1>2, <1>4, <1>8 DEF FoldIn
  <2>2. OnStrip(spent, origin.anchor) /\ ~Stacked(spent, w)
    BY <1>7, <1>8
  <2>3. /\ t.keptView = spent.keptView /\ t.centre = spent.centre /\ ColumnOf(t, w) \in DOMAIN t.columns
        /\ Width(t, t.columns[ColumnOf(t, w)]) = Width(spent, spent.columns[ColumnOf(spent, origin.anchor)])
    BY <1>3, <1>6, <2>1, <2>2, RestoredWidth
  <2> QED BY <1>5, <1>7, <1>8, <2>3
<1>9. CASE ~(OnStrip(s, origin.anchor) /\ ColumnOf(s, origin.anchor) = target)
  <2>1. t = MoveToColumnEnd(spent, w, target)
    BY <1>2, <1>4, <1>9 DEF FoldIn
  <2>2. target \in DOMAIN spent.columns /\ target # ColumnOf(spent, w)
    BY <1>5, <1>7
  <2>3. t.keptView = NoView
    BY <1>6, <2>1, <2>2, MovedToEnd
  <2> QED BY <2>3, Typed
<1> QED BY <1>8, <1>9

-----------------------------------------------------------------------------
(* The view kept by a fold out of a stack, for the fold back in.           *)

(* A view held at a value shows a column of that width whole.              *)
ShowsWhole(v, width) == ~v.centred => 0 <= v.value[1] /\ v.value[1] <= Viewport - width

(* The view kept shows whole the column the window goes back into.         *)
Returns(s) ==
    s.keptView.window # NoWindow =>
        \A d \in ColumnToward(s, s.keptView.side) : ShowsWhole(s.keptView.view, Width(s, s.columns[d]))

LEMMA NothingReturns == ASSUME NEW s, s.keptView = NoView PROVE Returns(s)
  BY Typed DEF Returns

LEMMA KinReturns ==
    ASSUME NEW s, NEW t, Kin(s, t), t.keptView = s.keptView, Returns(s)
    PROVE  Returns(t)
<1>1. t.columns = s.columns /\ t.selected = s.selected
  BY DEF Kin
<1>2. ColumnOf(t, t.selected) = ColumnOf(s, s.selected)
  BY <1>1, KinLocated
<1>3. \A side : ColumnToward(t, side) = ColumnToward(s, side)
  BY ONLY <1>1, <1>2 DEF ColumnToward
<1>4. t.columns = s.columns /\ \A l : Width(t, l) = Width(s, l)
  BY DEF Kin, Width, Kind
<1> QED BY <1>3, <1>4 DEF Returns

LEMMA FacingReturns ==
    ASSUME NEW s, NEW x, Facing(s, s.keptView.side, x), ShowsWhole(s.keptView.view, x)
    PROVE  Returns(s)
  BY DEF Returns, Facing

(* What the last pass showed of the selected column.                       *)
LEMMA SeenWhole ==
    ASSUME NEW s, NEW g, Framed(s, g), s.centre = NoWindow, NEW x \in Int, s.measured = Record(s, g, x), InView(s)
    PROVE  /\ 0 <= s.measured.rel
           /\ s.measured.rel <= Viewport - Width(s, s.columns[SelectedColumn(s)])
<1>1. /\ g \in Geometries /\ g.delta = g.anchor - (Viewport - g.width) \div 2 /\ g.width \in 1..Viewport
      /\ g.anchor = 0 /\ g.width = Width(s, s.columns[SelectedColumn(s)])
  BY DEF Framed
<1>2. g.start \in Int /\ g.width \in Int /\ g.delta \in Int /\ Viewport \in Int /\ g.width <= Viewport
  BY <1>1, ViewportIs DEF Geometries
<1>3. PICK mid : mid = (Viewport - g.width) \div 2
  OBVIOUS
<1>4. mid \in Int
  BY <1>2, <1>3, MidIs
<1>5. g.delta = 0 - mid
  BY <1>1, <1>3
<1>6. s.measured.rel = g.start - x /\ s.measured.slot = g.width /\ s.measured.delta = g.delta
  BY DEF Record
<1>7. ShownX(s) = g.start - x + g.delta + mid
  BY <1>3, <1>6 DEF ShownX
<1>8. PICK rel : rel = g.start - x
  OBVIOUS
<1>9. rel \in Int /\ rel + g.delta + mid = rel
  BY ONLY <1>2, <1>4, <1>5, <1>8, x \in Int
<1>10. 0 <= rel /\ rel + g.width <= Viewport
  BY <1>6, <1>7, <1>8, <1>9 DEF InView
<1>11. rel <= Viewport - g.width
  BY ONLY <1>2, <1>9, <1>10
<1> QED BY <1>1, <1>6, <1>8, <1>10, <1>11

(* At rest, in view, and with what it keeps to be shown.                   *)
Resting(s, nv) == nv /\ Pass(s, nv) = s /\ InView(s) /\ Returns(s)

LEMMA RestingSees ==
    ASSUME NEW s, Good(s), s.columns # <<>>, NEW nv \in BOOLEAN, Resting(s, nv), NEW w, w = s.selected,
           NEW v \in ViewOf(s, w)
    PROVE  ShowsWhole(v, Width(s, s.columns[ColumnOf(s, w)]))
<1>1. s \in StripSet /\ Arranged(s.columns) /\ Located(s)
  BY LedLocated
<1>2. SelectedColumn(s) = ColumnOf(s, w)
  BY <1>1 DEF SelectedColumn
<1>3. CASE s.centre = w
  BY <1>3 DEF ViewOf, Centred, ShowsWhole
<1>4. CASE s.centre # w
  <2>1. s.centre = NoWindow
    BY <1>4 DEF Good, HeldFor
  <2>2. v = Held(<<s.measured.rel, 1>>)
    BY <1>4 DEF ViewOf
  <2>3. v.value[1] = s.measured.rel
    BY <2>2 DEF Held
  <2>4. PICK g : g = Geometry(s, nv)
    OBVIOUS
  <2>5. Framed(s, g)
    BY <1>1, <2>4, Laid DEF Framed, Resting
  <2>6. s.offset \in Int /\ s.measured = Record(s, g, s.offset)
    <3>1. Good(s) /\ nv \in BOOLEAN /\ s = Pass(s, nv)
      BY DEF Resting
    <3> QED BY ONLY <2>4, <3>1, PassIs
  <2>7. InView(s)
    BY DEF Resting
  <2>8. 0 <= s.measured.rel /\ s.measured.rel <= Viewport - Width(s, s.columns[SelectedColumn(s)])
    BY <2>1, <2>5, <2>6, <2>7, SeenWhole
  <2> QED BY <1>2, <2>3, <2>8 DEF ShowsWhole
<1> QED BY <1>3, <1>4

LEMMA KinSighted ==
    ASSUME NEW s, NEW t, Kin(s, t), t.centre = s.centre, t.intent = s.intent, Sighted(s)
    PROVE  Sighted(t)
<1>1. SelectedColumn(t) = SelectedColumn(s) /\ t.columns = s.columns /\ t.selected = s.selected
  BY KinLocated DEF SelectedColumn, Kin
<1>2. \A l : Width(t, l) = Width(s, l)
  BY DEF Width, Kind, Kin
<1> QED BY <1>1, <1>2 DEF Sighted

LEMMA SelectingKin ==
    ASSUME NEW s \in StripSet, NEW w, s.selected = w, NEW t, t = Selecting(s, w)
    PROVE  Kin(s, t)
  BY DEF Selecting, Kin, StripSet

LEMMA KeptIs ==
    ASSUME NEW s \in StripSet, NEW w, NEW side, NEW views, views # {}, NEW t, t = Kept(s, w, side, views)
    PROVE  /\ Kin(s, t) /\ t.centre = s.centre /\ t.intent = s.intent
           /\ t.keptView.window = w /\ t.keptView.side = side /\ t.keptView.view \in views
<1>1. PICK v : v = CHOOSE u \in views : TRUE
  OBVIOUS
<1>2. v \in views
  BY <1>1
<1>3. PICK k : k = [window |-> w, side |-> side, view |-> v]
  OBVIOUS
<1>4. t = [s EXCEPT !.keptView = k]
  BY <1>1, <1>3 DEF Kept
<1>5. t.keptView = k /\ Kin(s, t) /\ t.centre = s.centre /\ t.intent = s.intent
  BY <1>4 DEF StripSet, Kin
<1> QED BY <1>2, <1>3, <1>5

(* Out of a stack: in view, and the view it was in kept for the way back.  *)
LEMMA FoldOutSees ==
    ASSUME NEW s, Good(s), NEW w, w = s.selected, Located(s), Stacked(s, w), NEW side \in {"left", "right"},
           NEW nv \in BOOLEAN, NEW t, t = ToggleFold(s, side, nv)
    PROVE  /\ nv => Sighted(t)
           /\ Resting(s, nv) \/ t.keptView = NoView => Returns(t)
<1>1. Whole(s) /\ s \in StripSet /\ Arranged(s.columns)
  BY WholeIs, Tame
<1>2. w \in Tiled(s) /\ w \in Windows
  BY <1>1, TiledIs DEF Located
<1>3. PICK u : u = FoldOut(s, w, side)
  OBVIOUS
<1>4. Changes(s, u)
  BY <1>1, <1>2, <1>3, FoldsOut
<1>5. PICK v : v = Selecting(u, w)
  OBVIOUS
<1>6. Whole(v) /\ v.selected = w /\ w \in Tiled(v) /\ Kin(u, v)
  <2>1. Whole(u) /\ u.selected = w /\ w \in Tiled(u) /\ u \in StripSet
    BY <1>2, <1>4, Tame DEF Changes
  <2> QED BY <1>5, <2>1, SelectingIs, SelectingKin
<1>7. PICK x : x = Show(v, nv)
  OBVIOUS
<1>8. Shown(v, x, nv)
  BY <1>6, <1>7, Tame, ShowShows
<1>9. x \in StripSet /\ Kin(v, x) /\ x.keptView = NoView /\ (nv => Sighted(x))
  <2>1. Located(v)
    BY <1>6, TiledIs, Tame DEF Located
  <2> QED BY <1>8, <2>1 DEF Shown
<1>10. PICK views : views = IF nv THEN ViewOf(s, w) ELSE {}
  OBVIOUS
<1>11. t = Kept(x, w, side, views)
  BY <1>3, <1>5, <1>7, <1>10 DEF ToggleFold
<1>12. PICK wide : wide = Width(s, s.columns[ColumnOf(s, w)])
  OBVIOUS
<1>13. Facing(x, side, wide)
  <2>1. Facing(u, side, wide)
    BY <1>1, <1>2, <1>3, <1>12, FoldedOut
  <2> QED BY <1>6, <1>9, <2>1, KinFacing
<1>14. CASE views = {}
  <2>1. t = x
    BY <1>11, <1>14 DEF Kept
  <2> QED BY <1>9, <2>1, NothingReturns
<1>15. CASE views # {}
  <2>1. /\ Kin(x, t) /\ t.centre = x.centre /\ t.intent = x.intent
        /\ t.keptView.window = w /\ t.keptView.side = side /\ t.keptView.view \in views
    BY <1>9, <1>11, <1>15, KeptIs
  <2>2. nv => Sighted(t)
    BY <1>9, <2>1, KinSighted
  <2>3. t.keptView # NoView
    BY <1>2, <2>1, StripAssumption, Typed
  <2>4. ASSUME Resting(s, nv) PROVE Returns(t)
    <3>1. t.keptView.view \in ViewOf(s, w)
      BY <1>10, <2>1, <2>4 DEF Resting
    <3>2. s.columns # <<>>
      BY <1>1, <1>2, Bare
    <3>3. ShowsWhole(t.keptView.view, wide)
      BY <1>12, <2>4, <3>1, <3>2, RestingSees
    <3>4. Facing(t, side, wide)
      BY <1>13, <2>1, KinFacing
    <3> QED BY <2>1, <3>3, <3>4, FacingReturns
  <2> QED BY <2>2, <2>3, <2>4
<1> QED BY <1>14, <1>15

(* Back into the column next to it: in view, or as the view kept shows it. *)
LEMMA FoldInSees ==
    ASSUME NEW s, Good(s), NEW w, w = s.selected, Located(s), ~Stacked(s, w), NEW side \in {"left", "right"},
           NEW nv \in BOOLEAN, NEW t, t = ToggleFold(s, side, nv)
    PROVE  \/ t = s
           \/ t.keptView = NoView /\ (Resting(s, nv) \/ (nv /\ s.keptView = NoView) => Sighted(t))
<1>1. Whole(s) /\ s \in StripSet /\ Arranged(s.columns)
  BY WholeIs, Tame
<1>2. w \in Tiled(s) /\ w \in Windows /\ w # NoWindow
  BY <1>1, TiledIs DEF Located
<1>3. CASE ColumnToward(s, side) = {}
  BY <1>3 DEF ToggleFold
<1>4. CASE ColumnToward(s, side) # {}
  <2>1. PICK target : target = CHOOSE d \in ColumnToward(s, side) : TRUE
    OBVIOUS
  <2>2. target \in ColumnToward(s, side)
    BY <1>4, <2>1
  <2>3. target \in DOMAIN s.columns /\ target # ColumnOf(s, w)
    <3>1. OnStrip(s, w)
      BY DEF Located
    <3>2. ColumnOf(s, w) \in DOMAIN s.columns
      BY <1>1, <3>1, WhereIs
    <3>3. DOMAIN s.columns = 1..Len(s.columns)
      BY <1>1 DEF Arranged
    <3>4. ColumnOf(s, w) \in Int
      BY <3>2, <3>3
    <3>5. target \in DOMAIN s.columns /\ (target = ColumnOf(s, w) - 1 \/ target = ColumnOf(s, w) + 1)
      BY <2>2, TowardIs
    <3> QED BY <3>4, <3>5
  <2>4. PICK u : u = FoldIn(s, w, target)
    OBVIOUS
  <2>5. Whole(u) /\ w \in Tiled(u) /\ u.selected = w /\ u \in StripSet
    <3>1. Changes(s, u)
      BY <1>1, <1>2, <2>3, <2>4, FoldsIn
    <3> QED BY <1>2, <3>1, Tame DEF Changes
  <2>6. t = FoldedIn(u, w, side, nv)
    BY <1>4, <2>1, <2>4 DEF ToggleFold
  <2>7. PICK v : v = Selecting(u, w)
    OBVIOUS
  <2>8. Whole(v) /\ v.selected = w /\ Kin(u, v) /\ v \in StripSet /\ Located(v)
    <3>1. Whole(v) /\ v.selected = w /\ Tiled(v) = Tiled(u)
      BY <2>5, <2>7, SelectingIs
    <3>2. Kin(u, v)
      BY <2>5, <2>7, SelectingKin
    <3>3. OnStrip(v, w)
      BY <2>5, <3>1, TiledIs, Tame
    <3> QED BY <1>2, <3>1, <3>2, <3>3, Tame DEF Located
  <2>9. CASE u.keptView.window = w /\ u.keptView.side = side
    <3>1. PICK view : view = u.keptView.view
      OBVIOUS
    <3>2. view \in Places
      BY <2>5, <3>1 DEF StripSet
    <3>3. t = HoldSelected(v, w, "start", view)
      BY <2>6, <2>7, <2>9, <3>1 DEF FoldedIn, ReturnToView
    <3>4. /\ Freed(v, t) /\ (view.centred => Sighted(t))
          /\ ~view.centred => /\ t.centre = NoWindow /\ t.intent.kind = "pin" /\ t.intent.window = w
                              /\ t.intent.pin = "start" /\ t.intent.value = view.value /\ t.intent.reveal = "none"
      <4>1. "start" \in {"place", "start"} /\ "start" # "place"
        OBVIOUS
      <4> QED BY <1>2, <2>8, <3>2, <3>3, <4>1, HeldSelected
    <3>5. Kin(v, t) /\ t.keptView = NoView /\ t.selected = w
      BY <2>8, <3>4 DEF Freed, Kin
    <3>6. u.keptView.window # NoWindow
      BY <1>2, <2>9
    <3>7. /\ u.keptView = s.keptView
          /\ Width(u, u.columns[ColumnOf(u, w)]) = Width(s, s.columns[target])
      BY <1>1, <1>2, <2>3, <2>4, <3>6, FoldedInWidth
    <3>8. s.keptView # NoView
      BY <3>6, <3>7, Typed
    <3>9. ASSUME Resting(s, nv), ~view.centred PROVE Sighted(t)
      <4>1. ShowsWhole(view, Width(s, s.columns[target]))
        <5>1. Returns(s)
          BY <3>9 DEF Resting
        <5> QED BY <2>2, <2>9, <3>1, <3>6, <3>7, <5>1 DEF Returns
      <4>2. Width(t, t.columns[SelectedColumn(t)]) = Width(s, s.columns[target])
        <5>1. Kin(u, t)
          BY <2>8, <3>5 DEF Kin
        <5>2. Located(t) /\ ColumnOf(t, w) = ColumnOf(u, w) /\ t.columns = u.columns
          BY <2>8, <3>5, <5>1, KinLocated DEF Kin
        <5>3. \A l : Width(t, l) = Width(u, l)
          BY <5>1 DEF Kin, Width, Kind
        <5> QED BY <3>5, <3>7, <5>2, <5>3 DEF SelectedColumn
      <4> QED BY <3>4, <3>5, <3>9, <4>1, <4>2 DEF Sighted, ShowsWhole
    <3> QED BY <3>4, <3>5, <3>8, <3>9
  <2>10. CASE ~(u.keptView.window = w /\ u.keptView.side = side)
    <3>1. t = Show(v, nv)
      BY <2>6, <2>7, <2>10 DEF FoldedIn
    <3>2. Shown(v, t, nv)
      BY <2>8, <3>1, ShowShows
    <3> QED BY <2>8, <3>2 DEF Shown, Resting
  <2> QED BY <2>9, <2>10
<1> QED BY <1>3, <1>4

(* A fold key leaves the strip as it was or the selection to be brought    *)
(* into view, from rest in view, or with no view kept before or after.     *)
LEMMA FoldSees ==
    ASSUME NEW s, Good(s), NEW side \in {"left", "right"}, NEW nv \in BOOLEAN, nv, NEW t, t = ToggleFold(s, side, nv),
           Resting(s, nv) \/ (s.keptView = NoView /\ t.keptView = NoView)
    PROVE  t = s \/ (Sighted(t) /\ Returns(t))
<1>1. PICK w : w = s.selected
  OBVIOUS
<1>2. CASE ~Located(s)
  BY <1>2 DEF ToggleFold
<1>3. CASE Located(s) /\ Stacked(s, w)
  BY <1>1, <1>3, FoldOutSees
<1>4. CASE Located(s) /\ ~Stacked(s, w)
  BY <1>1, <1>4, FoldInSees, NothingReturns
<1> QED BY <1>2, <1>3, <1>4

-----------------------------------------------------------------------------
(* A window's identity changed, with its strip at rest.                    *)

(* Strips laid out to the same measures, whatever their windows.           *)
Alike(s, t) ==
    /\ DOMAIN t.columns = DOMAIN s.columns /\ Len(t.columns) = Len(s.columns)
    /\ (t.columns = <<>>) <=> (s.columns = <<>>)
    /\ \A c \in DOMAIN s.columns : Width(t, t.columns[c]) = Width(s, s.columns[c])
    /\ t.ratio = s.ratio /\ SelectedColumn(t) = SelectedColumn(s)
    /\ (t.centre = NoWindow) <=> (s.centre = NoWindow)

LEMMA AlikeEnds ==
    ASSUME NEW s \in StripSet, NEW t, Alike(s, t)
    PROVE  Ends(t) = Ends(s)
<1>1. PICK n : n = Len(s.columns)
  OBVIOUS
<1>2. n \in Nat /\ 1..n = DOMAIN s.columns
  BY <1>1 DEF StripSet
<1>3. n = Len(t.columns) /\ \A c \in 1..n : Width(t, t.columns[c]) = Width(s, s.columns[c])
  BY <1>1, <1>2 DEF Alike
<1> DEFINE At(f) == f = [c \in 0..n |-> IF c = 0 THEN 0 ELSE f[c - 1] + Width(s, s.columns[c])]
           Bt(f) == f = [c \in 0..n |-> IF c = 0 THEN 0 ELSE f[c - 1] + Width(t, t.columns[c])]
<1>4. ASSUME NEW f PROVE At(f) <=> Bt(f)
  <2>1. \A c \in 0..n : c # 0 => c \in 1..n
    BY <1>2
  <2>2. [c \in 0..n |-> IF c = 0 THEN 0 ELSE f[c - 1] + Width(s, s.columns[c])]
          = [c \in 0..n |-> IF c = 0 THEN 0 ELSE f[c - 1] + Width(t, t.columns[c])]
    BY <1>3, <2>1
  <2> QED BY <2>2
<1>5. Ends(s) = (CHOOSE f : At(f)) /\ Ends(t) = (CHOOSE f : Bt(f))
  BY <1>1, <1>3 DEF Ends
<1> HIDE DEF At, Bt
<1>6. (CHOOSE f : At(f)) = (CHOOSE f : Bt(f))
  BY <1>4
<1> QED BY <1>5, <1>6

LEMMA AlikeGeometry ==
    ASSUME NEW s \in StripSet, Arranged(s.columns), NEW t, Alike(s, t), NEW nv
    PROVE  Geometry(t, nv) = Geometry(s, nv)
<1>1. /\ (t.columns = <<>> <=> s.columns = <<>>) /\ t.ratio = s.ratio /\ SelectedColumn(t) = SelectedColumn(s)
      /\ (t.centre = NoWindow <=> s.centre = NoWindow) /\ Len(t.columns) = Len(s.columns)
  BY DEF Alike
<1>2. ASSUME NEW c PROVE Start(t, c) = Start(s, c)
  BY AlikeEnds DEF Start
<1>3. Centres(t, nv) <=> Centres(s, nv)
  BY <1>1 DEF Centres
<1>4. ASSUME NEW c, NEW width, NEW anchor PROVE GeometryOf(t, c, width, anchor) = GeometryOf(s, c, width, anchor)
  BY <1>1, <1>2 DEF GeometryOf
<1>5. ASSUME NEW c, NEW width PROVE Anchored(t, nv, c, width) = Anchored(s, nv, c, width)
  BY <1>1, <1>3, <1>4 DEF Anchored
<1>6. (IF t.columns = <<>> THEN Bounded("bounded", t.ratio) ELSE Width(t, t.columns[SelectedColumn(t)]))
       = (IF s.columns = <<>> THEN Bounded("bounded", s.ratio) ELSE Width(s, s.columns[SelectedColumn(s)]))
  <2>1. CASE s.columns = <<>>
    BY <1>1, <2>1
  <2>2. CASE s.columns # <<>>
    <3>1. SelectedColumn(s) \in DOMAIN s.columns
      <4>1. DOMAIN s.columns = 1..Len(s.columns)
        BY DEF Arranged
      <4> QED BY <2>2, <4>1, SelectedColumnIs
    <3> QED BY <1>1, <2>2, <3>1 DEF Alike
  <2> QED BY <2>1, <2>2
<1> QED BY <1>1, <1>5, <1>6 DEF Geometry

(* A strip with no request left, alike to one at rest.                     *)
LEMMA AlikeRests ==
    ASSUME NEW s, Good(s), NEW nv \in BOOLEAN, Pass(s, nv) = s, NEW u, Good(u), Alike(s, u),
           u.offset = s.offset, u.intent = Keep, NEW t, t = Pass(u, nv)
    PROVE  /\ t.measured.rel = s.measured.rel /\ t.measured.slot = s.measured.slot
           /\ t.measured.delta = s.measured.delta
<1>1. PICK g : g = Geometry(s, nv)
  OBVIOUS
<1>2. s \in StripSet /\ Arranged(s.columns)
  BY WholeIs, Tame
<1>3. g = Geometry(u, nv)
  BY <1>1, <1>2, AlikeGeometry
<1>4. s.intent = Keep /\ s.offset = ResolveScroll(s, g, Spent(s, g)) /\ s.measured = Record(s, g, s.offset)
  BY <1>1, PassIs
<1>5. t.offset = ResolveScroll(u, g, Spent(u, g)) /\ t.measured = Record(u, g, t.offset)
  BY <1>3, PassIs
<1>6. Keep.kind = "keep" /\ Keep.pin = "none" /\ Keep.reveal = "none"
  BY Typed
<1>7. Spent(s, g) = s.offset /\ Spent(u, g) = s.offset /\ RevealAfter(s) = "none" /\ RevealAfter(u) = "none"
  BY <1>4, <1>6 DEF Spent, RevealAfter
<1>8. RevealOffset(g, "none", s.offset) = s.offset
  BY DEF RevealOffset
<1>9. t.offset = s.offset
  <2>1. s.centre = NoWindow <=> u.centre = NoWindow
    BY DEF Alike
  <2> QED BY <1>4, <1>5, <1>7, <1>8, <2>1 DEF ResolveScroll
<1> QED BY <1>4, <1>5, <1>9 DEF Record

LEMMA ReplacedAlike ==
    ASSUME NEW s, Good(s), s.columns # <<>>, NEW from \in Windows, NEW to \in Windows, from # to, to \notin Tiled(s),
           NEW t, t = ReplaceWindow(s, from, to)
    PROVE  /\ Alike(s, t) /\ t.offset = s.offset
           /\ \A side : ColumnToward(t, side) = ColumnToward(s, side)
           /\ s.intent = Keep => t.intent = Keep
           /\ t.keptView.window = Newly(from, to, s.keptView.window)
           /\ t.keptView.side = s.keptView.side /\ t.keptView.view = s.keptView.view
<1>1. s \in StripSet /\ Arranged(s.columns) /\ Located(s)
  BY LedLocated
<1>2. Good(t) /\ Tiled(t) = {Newly(from, to, w) : w \in Tiled(s)}
  BY Replaced
<1>3. t \in StripSet /\ Arranged(t.columns)
  BY <1>2, WholeIs, Tame
<1>4. PICK f : f = Taking(from, to)
  OBVIOUS
<1>5. f \in [Windows -> Windows] /\ \A w \in Windows : f[w] = Newly(from, to, w)
  BY <1>4 DEF Taking, Newly
<1>6. Apiece(f, Tiled(s))
  BY <1>5 DEF Apiece, Newly, Tiled
<1>7. PICK new : new = Relabelled(s.columns, f)
  OBVIOUS
<1>8. /\ DOMAIN new = DOMAIN s.columns /\ Len(new) = Len(s.columns)
      /\ \A c \in DOMAIN new :
            /\ new[c].width = s.columns[c].width
            /\ \A w : In(new[c], w) <=> \E v \in Windows : In(s.columns[c], v) /\ f[v] = w
  <2>1. DOMAIN new = DOMAIN s.columns /\ Len(new) = Len(s.columns)
    BY <1>1, <1>5, <1>6, <1>7, Relabels
  <2>2. ASSUME NEW c \in DOMAIN new PROVE new[c].width = s.columns[c].width
    BY <1>1, <1>5, <1>6, <1>7, Relabels
  <2>3. ASSUME NEW c \in DOMAIN new, NEW v \in Windows, In(s.columns[c], v) PROVE In(new[c], f[v])
    BY ONLY <1>1, <1>5, <1>6, <1>7, <2>3, Relabels
  <2>4. ASSUME NEW c \in DOMAIN new, NEW w, In(new[c], w) PROVE \E v \in Windows : In(s.columns[c], v) /\ f[v] = w
    <3>1. new[c] = [s.columns[c] EXCEPT !.windows = Mapped(f, s.columns[c].windows)] /\ c \in DOMAIN s.columns
      BY <1>7 DEF Relabelled
    <3>2. PICK ws : ws = s.columns[c].windows
      OBVIOUS
    <3>3. s.columns[c] \in ColumnSet /\ ws \in Seq(Windows)
      BY <1>1, <3>1, <3>2, ColumnFacts
    <3>4. PICK mapped : mapped = Mapped(f, ws)
      OBVIOUS
    <3>5. DOMAIN mapped = DOMAIN ws /\ \A i \in DOMAIN ws : mapped[i] = f[ws[i]] /\ ws[i] \in Windows
      BY <1>5, <3>3, <3>4, MappedIs
    <3>6. new[c].windows = mapped
      BY <3>1, <3>2, <3>3, <3>4 DEF ColumnSet
    <3>7. PICK i \in DOMAIN ws : mapped[i] = w
      BY <2>4, <3>5, <3>6 DEF In
    <3>8. In(s.columns[c], ws[i]) /\ f[ws[i]] = w /\ ws[i] \in Windows
      BY <3>2, <3>5, <3>7 DEF In
    <3> QED BY <3>8
  <2> QED BY <2>1, <2>2, <2>3, <2>4
<1>9. PICK view : view = [s.keptView EXCEPT !.window = Newly(from, to, @)]
  OBVIOUS
<1>10. PICK intent : intent = [s.intent EXCEPT !.window = Newly(from, to, @)]
  OBVIOUS
<1>11. PICK full : full = {Newly(from, to, w) : w \in s.fullWidth}
  OBVIOUS
<1>12. /\ t.columns = new /\ t.selected = Newly(from, to, s.selected) /\ t.centre = Newly(from, to, s.centre)
       /\ t.keptView = view /\ t.intent = intent /\ t.fullWidth = full /\ t.ratio = s.ratio /\ t.offset = s.offset
  <2>1. PICK selected : selected = Newly(from, to, s.selected)
    OBVIOUS
  <2>2. PICK centre : centre = Newly(from, to, s.centre)
    OBVIOUS
  <2>3. PICK place : place = [s.keptPlace EXCEPT !.window = Newly(from, to, @)]
    OBVIOUS
  <2>4. PICK wo : wo = Renamed(s.widthOrigins, from, to)
    OBVIOUS
  <2>5. PICK fo : fo = Renamed(s.foldOrigins, from, to)
    OBVIOUS
  <2>6. t = Recast(s, new, selected, centre, view, place, intent, full, wo, fo)
    BY <1>1, <1>4, <1>7, <1>9, <1>10, <1>11, <2>1, <2>2, <2>3, <2>4, <2>5, ReplacedIs
  <2> QED BY <1>1, <2>1, <2>2, <2>6 DEF Recast, StripSet
<1>13. s.fullWidth \subseteq Tiled(s) /\ Tiled(s) \subseteq Windows
  BY WholeIs, Tame
<1>14. ASSUME NEW c \in DOMAIN s.columns PROVE Width(t, t.columns[c]) = Width(s, s.columns[c])
  <2>0. c \in DOMAIN t.columns /\ c \in DOMAIN new
    BY <1>8, <1>12
  <2>1. t.columns[c] \in ColumnSet /\ s.columns[c] \in ColumnSet /\ t.columns[c].width = s.columns[c].width
    <3>1. t.columns[c] \in ColumnSet
      BY <1>3, <2>0, ColumnFacts
    <3>2. s.columns[c] \in ColumnSet
      BY <1>1, ColumnFacts
    <3>3. t.columns[c].width = s.columns[c].width
      BY <1>8, <1>12, <2>0
    <3> QED BY <3>1, <3>2, <3>3
  <2>2. (\E w \in full : In(t.columns[c], w)) <=> (\E w \in s.fullWidth : In(s.columns[c], w))
    <3>1. ASSUME NEW w \in s.fullWidth, In(s.columns[c], w) PROVE \E v \in full : In(t.columns[c], v)
      <4>1. w \in Windows /\ f[w] = Newly(from, to, w)
        BY <1>5, <1>13
      <4>2. In(t.columns[c], f[w])
        BY <1>8, <1>12, <3>1, <4>1
      <4> QED BY <1>11, <4>1, <4>2
    <3>2. ASSUME NEW v \in full, In(t.columns[c], v) PROVE \E w \in s.fullWidth : In(s.columns[c], w)
      <4>1. PICK w \in s.fullWidth : v = Newly(from, to, w)
        BY <1>11
      <4>2. PICK x \in Windows : In(s.columns[c], x) /\ f[x] = v
        BY ONLY <1>8, <1>12, <3>2
      <4>3. x \in Tiled(s)
        <5>1. s.columns[c] \in Among(s.columns)
          BY DEF Among
        <5> QED BY <1>1, <4>2, <5>1, TiledIs
      <4>4. w \in Tiled(s) /\ w \in Windows /\ f[w] = v
        BY <1>5, <1>13, <4>1
      <4>5. x = w
        BY <1>6, <4>2, <4>3, <4>4 DEF Apiece
      <4> QED BY <4>2, <4>5
    <3> QED BY <3>1, <3>2
  <2>3. Kind(t, t.columns[c]) = Kind(s, s.columns[c])
    <3>1. \A w : (Holds(t.columns[c], w) <=> In(t.columns[c], w)) /\ (Holds(s.columns[c], w) <=> In(s.columns[c], w))
      BY <2>1, HoldsIn
    <3> QED BY <1>12, <2>1, <2>2, <3>1 DEF Kind
  <2> QED BY <1>12, <2>1, <2>3 DEF Width
<1>15. s.selected \in Windows /\ OnStrip(s, s.selected) /\ t.selected \in Windows /\ f[s.selected] = t.selected
  <2>1. OnStrip(s, s.selected) /\ s.selected \in Windows
    BY <1>1, WhereIs DEF Located
  <2> QED BY <1>5, <1>12, <2>1 DEF Newly
<1>16. t.columns # <<>>
  <2>1. 1 \in DOMAIN s.columns
    BY <1>1 DEF Arranged
  <2> QED BY <1>8, <1>12, <2>1
<1>17. Located(t)
  BY <1>2, <1>16, LedLocated
<1>18. ColumnOf(t, t.selected) = ColumnOf(s, s.selected)
  <2>1. PICK c : c = ColumnOf(s, s.selected)
    OBVIOUS
  <2>2. c \in DOMAIN s.columns /\ In(s.columns[c], s.selected)
    BY <1>1, <1>15, <2>1, WhereIs
  <2>3. c \in DOMAIN t.columns /\ In(t.columns[c], t.selected)
    BY <1>8, <1>12, <1>15, <2>2
  <2>4. OnStrip(t, t.selected)
    BY <1>17 DEF Located
  <2>5. c = ColumnOf(t, t.selected)
    BY <1>3, <2>3, <2>4, WhereIs
  <2> QED BY <2>1, <2>5
<1>19. SelectedColumn(t) = SelectedColumn(s)
  BY <1>1, <1>17, <1>18 DEF SelectedColumn
<1>20. t.centre = NoWindow <=> s.centre = NoWindow
  BY <1>12, StripAssumption DEF Newly
<1>21. Alike(s, t)
  BY <1>8, <1>12, <1>14, <1>16, <1>19, <1>20 DEF Alike
<1>22. \A side : ColumnToward(t, side) = ColumnToward(s, side)
  BY <1>8, <1>12, <1>18 DEF ColumnToward
<1>23. s.intent = Keep => t.intent = Keep
  <2> SUFFICES ASSUME s.intent = Keep PROVE intent = Keep
    BY <1>12
  <2>1. Newly(from, to, NoWindow) = NoWindow
    BY StripAssumption DEF Newly
  <2>2. intent = [Keep EXCEPT !.window = Newly(from, to, NoWindow)]
    BY <1>10 DEF Keep
  <2> QED BY <2>1, <2>2 DEF Keep
<1>24. /\ view.window = Newly(from, to, s.keptView.window)
       /\ view.side = s.keptView.side /\ view.view = s.keptView.view
  <2>1. s.keptView \in [window : OptWindow, side : Sides, view : Places]
    BY <1>1 DEF StripSet
  <2>2. PICK n : n = Newly(from, to, s.keptView.window)
    OBVIOUS
  <2>3. view = [s.keptView EXCEPT !.window = n]
    BY <1>9, <2>2
  <2> QED BY <2>1, <2>2, <2>3
<1> QED BY <1>12, <1>21, <1>22, <1>23, <1>24

(* At rest and in view, a strip is so after one of its windows is another. *)
LEMMA ReplacedRests ==
    ASSUME NEW s, Good(s), s.columns # <<>>, NEW nv \in BOOLEAN, Resting(s, nv),
           NEW from \in Windows, NEW to \in Windows, from # to, to \notin Tiled(s),
           NEW u, u = ReplaceWindow(s, from, to), NEW t, t = Pass(u, nv)
    PROVE  InView(t) /\ Returns(t)
<1>1. Pass(s, nv) = s /\ InView(s) /\ Returns(s)
  BY DEF Resting
<1>2. s.intent = Keep
  <2>1. s = Pass(s, nv)
    BY <1>1
  <2> QED BY <2>1, PassIs
<1>3. /\ Good(u) /\ Alike(s, u) /\ u.offset = s.offset /\ u.intent = Keep
      /\ \A side : ColumnToward(u, side) = ColumnToward(s, side)
      /\ u.keptView.window = Newly(from, to, s.keptView.window)
      /\ u.keptView.side = s.keptView.side /\ u.keptView.view = s.keptView.view
  <2>1. Good(u)
    BY Replaced
  <2>2. /\ Alike(s, u) /\ u.offset = s.offset /\ (s.intent = Keep => u.intent = Keep)
        /\ \A side : ColumnToward(u, side) = ColumnToward(s, side)
        /\ u.keptView.window = Newly(from, to, s.keptView.window)
        /\ u.keptView.side = s.keptView.side /\ u.keptView.view = s.keptView.view
    BY ReplacedAlike
  <2> QED BY <1>2, <2>1, <2>2
<1>4. /\ t.measured.rel = s.measured.rel /\ t.measured.slot = s.measured.slot
      /\ t.measured.delta = s.measured.delta
  BY <1>1, <1>3, AlikeRests
<1>5. InView(t)
  BY <1>1, <1>4 DEF InView, ShownX
<1>6. Returns(u)
  <2> SUFFICES ASSUME u.keptView.window # NoWindow, NEW d \in ColumnToward(u, u.keptView.side)
               PROVE  ShowsWhole(u.keptView.view, Width(u, u.columns[d]))
    BY DEF Returns
  <2>1. s.keptView.window # NoWindow
    BY <1>3, StripAssumption DEF Newly
  <2>2. d \in ColumnToward(s, s.keptView.side) /\ d \in DOMAIN s.columns
    <3>1. d \in ColumnToward(s, s.keptView.side)
      BY <1>3
    <3> QED BY <3>1 DEF ColumnToward
  <2>3. Width(u, u.columns[d]) = Width(s, s.columns[d])
    BY <1>3, <2>2 DEF Alike
  <2> QED BY <1>1, <1>3, <2>1, <2>2, <2>3 DEF Returns
<1>7. Kin(u, t) /\ t.keptView = u.keptView
  <2>1. Good(u) /\ nv \in BOOLEAN /\ t = Pass(u, nv)
    BY <1>3
  <2> QED BY ONLY <2>1, PassIs
<1> QED BY <1>5, <1>6, <1>7, KinReturns

-----------------------------------------------------------------------------
(* With no window held, the strip is at rest; and when it owes its         *)
(* selection a view, it shows it, and keeps a view that can show it again. *)
ViewInv ==
    ~Holding =>
        /\ Pass(strip, never) = strip
        /\ never /\ shows /\ strip.columns # <<>> => InView(strip) /\ Returns(strip)

(* What a pass leaves in view.                                             *)
Views(x, nv) ==
    \/ x.columns = <<>>
    \/ Sighted(x) /\ Returns(x)
    \/ InView(Pass(x, nv)) /\ Returns(Pass(x, nv))

LEMMA ViewsPassed ==
    ASSUME NEW x, Good(x), NEW nv \in BOOLEAN, nv, Views(x, nv), NEW t, t = Pass(x, nv), t.columns # <<>>
    PROVE  InView(t) /\ Returns(t)
<1>1. Kin(x, t) /\ t.keptView = x.keptView
  <2>1. Good(x) /\ nv \in BOOLEAN /\ t = Pass(x, nv)
    OBVIOUS
  <2> QED BY ONLY <2>1, PassIs
<1>2. x.columns # <<>>
  BY <1>1 DEF Kin
<1>3. CASE Sighted(x) /\ Returns(x)
  BY <1>1, <1>2, <1>3, PassInView, KinReturns
<1>4. CASE InView(Pass(x, nv)) /\ Returns(Pass(x, nv))
  BY <1>4
<1> QED BY <1>2, <1>3, <1>4 DEF Views

LEMMA FreshViews ==
    ASSUME NEW x, Good(x), NEW nv \in BOOLEAN, nv, Fresh(x, nv)
    PROVE  Views(x, nv)
<1>1. CASE x.columns = <<>>
  BY <1>1 DEF Views
<1>2. CASE x.columns # <<>>
  <2>1. Located(x)
    BY <1>2, LedLocated
  <2>2. Sighted(x) /\ x.keptView = NoView
    BY <2>1 DEF Fresh
  <2>3. Returns(x)
    BY <2>2, NothingReturns
  <2> QED BY <2>2, <2>3 DEF Views
<1> QED BY <1>1, <1>2

(* The strip on screen after a pass over x.                                *)
LEMMA Rests ==
    ASSUME scene \in Scenarios, scene' = scene, NEW x, Good(x), strips'[active'] = Pass(x, never),
           never /\ shows' => Views(x, never)
    PROVE  ViewInv'
<1>1. never \in BOOLEAN
  BY NeverIs
<1>2. never' = never /\ strip' = strips'[active']
  BY DEF never, strip
<1>3. PICK t : t = Pass(x, never)
  OBVIOUS
<1>4. Pass(t, never) = t
  BY <1>1, <1>3, PassTwice
<1>5. ASSUME never, shows', t.columns # <<>> PROVE InView(t) /\ Returns(t)
  BY <1>1, <1>3, <1>5, ViewsPassed
<1>6. strip' = t
  BY <1>2, <1>3
<1> QED BY <1>2, <1>4, <1>5, <1>6 DEF ViewInv

LEMMA SameView ==
    ASSUME ViewInv, scene' = scene, strips' = strips, active' = active, drag' = drag, shows' = shows
    PROVE  ViewInv'
<1>1. strip' = strip /\ never' = never /\ (Holding' <=> Holding)
  BY DEF strip, never, Holding
<1> QED BY <1>1 DEF ViewInv

LEMMA HoldingStays == ASSUME Holding, drag' = drag PROVE ViewInv'
<1>1. Holding'
  BY DEF Holding
<1> QED BY <1>1 DEF ViewInv

(* In view, it is so after another pass.                                   *)
LEMMA AlreadyViews ==
    ASSUME ViewInv, ~Holding, never, shows
    PROVE  Views(strip, never)
  BY DEF ViewInv, Views

(* The strip on screen as a command leaves it, with its pass: as it was,   *)
(* or its selection to be brought into view.                               *)
LEMMA LaidView ==
    ASSUME Inv, ViewInv, ~Holding, NEW x, Keeps(strip, x), LaysOut(x), scene' = scene, active' = active,
           x = strip \/ Fresh(x, never) \/ x.columns = <<>>, shows' => shows \/ x # strip
    PROVE  ViewInv'
<1>1. /\ strips \in [Spaces -> StripSet] /\ active \in Spaces /\ scene \in Scenarios /\ never \in BOOLEAN
  BY Homes DEF StripsAre
<1>2. strips'[active'] = Pass(x, never)
  BY <1>1 DEF LaysOut
<1>3. Good(x)
  BY DEF Keeps
<1>4. ASSUME never, shows' PROVE Views(x, never)
  <2>1. CASE x = strip
    BY <1>4, <2>1, AlreadyViews
  <2>2. CASE Fresh(x, never)
    BY <1>1, <1>3, <1>4, <2>2, FreshViews
  <2>3. CASE x.columns = <<>>
    BY <2>3 DEF Views
  <2> QED BY <2>1, <2>2, <2>3
<1> QED BY <1>1, <1>2, <1>3, <1>4, Rests

LEMMA FreedView ==
    ASSUME Inv, ViewInv, NEW x, Keeps(strip, x), LaysOutFreed(x), scene' = scene, active' = active, drag' = drag,
           x = strip \/ Fresh(x, never) \/ x.columns = <<>>, shows' => shows \/ x # strip
    PROVE  ViewInv'
<1>1. CASE Holding
  BY <1>1, HoldingStays
<1>2. CASE ~Holding
  BY <1>2, LaidView DEF LaysOutFreed
<1> QED BY <1>1, <1>2

(* A pass that owes no view.                                               *)
LEMMA LaidRest ==
    ASSUME Inv, NEW x, Good(x), LaysOut(x), scene' = scene, active' = active, shows' = FALSE
    PROVE  ViewInv'
<1>1. strips \in [Spaces -> StripSet] /\ active \in Spaces /\ scene \in Scenarios
  BY Homes DEF StripsAre
<1>2. strips'[active'] = Pass(x, never)
  BY <1>1 DEF LaysOut
<1> QED BY <1>1, <1>2, Rests

LEMMA FreedRest ==
    ASSUME Inv, NEW x, Good(x), LaysOutFreed(x), scene' = scene, active' = active, drag' = drag, shows' = FALSE
    PROVE  ViewInv'
<1>1. CASE Holding
  BY <1>1, HoldingStays
<1>2. CASE ~Holding
  BY <1>2, LaidRest DEF LaysOutFreed
<1> QED BY <1>1, <1>2

(* A pass that brings the selection into view, where it owes one.          *)
LEMMA FreedSees ==
    ASSUME Inv, NEW x, Good(x), LaysOutFreed(x), scene' = scene, active' = active, drag' = drag, Fresh(x, never)
    PROVE  ViewInv'
<1>1. CASE Holding
  BY <1>1, HoldingStays
<1>2. CASE ~Holding
  <2>1. strips \in [Spaces -> StripSet] /\ active \in Spaces /\ scene \in Scenarios /\ never \in BOOLEAN
    BY Homes DEF StripsAre
  <2>2. strips'[active'] = Pass(x, never)
    BY <1>2, <2>1 DEF LaysOutFreed, LaysOut
  <2>3. never => Views(x, never)
    BY <2>1, FreshViews
  <2> QED BY <2>1, <2>2, <2>3, Rests
<1> QED BY <1>1, <1>2

LEMMA PassedSees ==
    ASSUME Inv, NEW ss, DOMAIN ss = Spaces, Good(ss[active]), strips' = PassedOver(ss, active),
           scene' = scene, active' = active, drag' = drag, Fresh(ss[active], never)
    PROVE  ViewInv'
<1>1. CASE Holding
  BY <1>1, HoldingStays
<1>2. CASE ~Holding
  <2>1. active \in Spaces /\ scene \in Scenarios /\ never \in BOOLEAN
    BY StripIs
  <2>2. strips'[active'] = Pass(ss[active], never)
    BY <1>2, <2>1 DEF PassedOver
  <2>3. never => Views(ss[active], never)
    BY <2>1, FreshViews
  <2> QED BY <2>1, <2>2, <2>3, Rests
<1> QED BY <1>1, <1>2

(* The strip of a workspace among others, with the pass that follows.      *)
LEMMA PassedRest ==
    ASSUME Inv, NEW ss, DOMAIN ss = Spaces, Good(ss[active]), strips' = PassedOver(ss, active),
           scene' = scene, active' = active, drag' = drag, shows' = FALSE
    PROVE  ViewInv'
<1>1. CASE Holding
  BY <1>1, HoldingStays
<1>2. CASE ~Holding
  <2>1. active \in Spaces /\ scene \in Scenarios
    BY StripIs
  <2>2. strips'[active'] = Pass(ss[active], never)
    BY <1>2, <2>1 DEF PassedOver
  <2> QED BY <2>1, <2>2, Rests
<1> QED BY <1>1, <1>2

LEMMA FocusesView ==
    ASSUME Inv, ViewInv, NEW w, Focuses(w), scene' = scene, active' = active, drag' = drag
    PROVE  ViewInv'
<1>1. CASE Holding
  BY <1>1, HoldingStays
<1>2. CASE ~Holding /\ w \in floating
  BY <1>2, SameView DEF Focuses
<1>3. CASE ~Holding /\ w \notin floating
  <2>1. PICK x : x = Select(strip, w, never)
    OBVIOUS
  <2>2. LaysOut(x) /\ Owed(x)
    BY <1>3, <2>1 DEF Focuses
  <2>3. Good(strip) /\ never \in BOOLEAN
    BY StripIs
  <2>4. Keeps(strip, x)
    BY <2>1, <2>3, Selects
  <2>5. x = strip \/ Fresh(x, never)
    BY <2>1, <2>3, SelectsFresh
  <2> QED BY <1>3, <2>2, <2>4, <2>5, LaidView DEF Owed
<1> QED BY <1>1, <1>2, <1>3

LEMMA RespondView ==
    ASSUME Inv, ViewInv, NEW s, Keeps(strip, s), s = strip \/ Fresh(s, never), NEW w, Respond(s, w),
           scene' = scene, active' = active, drag' = drag
    PROVE  ViewInv'
<1>1. PICK x : x = IF w \in floating THEN s ELSE Select(s, w, never)
  OBVIOUS
<1>2. LaysOutFreed(x) /\ Owed(x)
  BY <1>1 DEF Respond
<1>3. Good(s) /\ never \in BOOLEAN
  BY StripIs DEF Keeps
<1>4. PICK y : y = Select(s, w, never)
  OBVIOUS
<1>5. Keeps(s, y) /\ (y = s \/ Fresh(y, never))
  BY <1>3, <1>4, Selects, SelectsFresh
<1>6. Keeps(strip, x)
  BY <1>1, <1>4, <1>5, KeepsBoth
<1>7. x = strip \/ Fresh(x, never)
  BY <1>1, <1>4, <1>5
<1> QED BY <1>2, <1>6, <1>7, FreedView DEF Owed

LEMMA OnlyStripView ==
    ASSUME Inv, ViewInv, NEW act, NEW x, Keeps(strip, x), OnStripOnly(act, x), x = strip \/ Fresh(x, never)
    PROVE  ViewInv'
<1>1. /\ LaysOutFreed(x) /\ scene' = scene /\ active' = active /\ drag' = drag
      /\ shows' => shows \/ x # strip
  BY DEF OnStripOnly, Acts
<1> QED BY <1>1, FreedView

LEMMA WidthView ==
    ASSUME Inv, ViewInv, NEW act, NEW w, NEW x, Keeps(strip, x), WidthPressed(act, w, x),
           x = strip \/ Fresh(x, never) \/ x.columns = <<>>
    PROVE  ViewInv'
<1>1. /\ LaysOutFreed(x) /\ scene' = scene /\ active' = active /\ drag' = drag
      /\ shows' => shows \/ x # strip
  BY DEF WidthPressed, GivesWidth, Owed, Acts
<1> QED BY <1>1, FreedView

LEMMA FoldView ==
    ASSUME Inv, ViewInv, NEW side \in {"left", "right"}, FoldPressed(side)
    PROVE  ViewInv'
<1>1. PICK x : x = ToggleFold(strip, side, never)
  OBVIOUS
<1>2. /\ LaysOutFreed(x) /\ scene' = scene /\ active' = active /\ drag' = drag
      /\ shows' => shows \/ (x # strip /\ strip.keptView = NoView /\ x.keptView = NoView)
  BY <1>1 DEF FoldPressed, OnStripOnly, Acts
<1>3. CASE Holding
  BY <1>2, <1>3, HoldingStays
<1>4. CASE ~Holding
  <2>1. Good(strip) /\ never \in BOOLEAN /\ scene \in Scenarios /\ active \in Spaces /\ Arranged(strip.columns)
    BY StripIs
  <2>2. Keeps(strip, x)
    BY <1>1, <2>1, FoldToggled
  <2>3. strips'[active'] = Pass(x, never)
    <3>1. strips \in [Spaces -> StripSet]
      BY Homes DEF StripsAre
    <3> QED BY <1>2, <1>4, <2>1, <3>1 DEF LaysOutFreed, LaysOut
  <2>4. Good(x) /\ Tiled(x) = Tiled(strip)
    BY <2>2 DEF Keeps
  <2>5. ASSUME never, shows' PROVE Views(x, never)
    <3>1. CASE x = strip
      BY <1>2, <1>4, <2>5, <3>1, AlreadyViews
    <3>2. CASE x.columns = <<>>
      BY <3>2 DEF Views
    <3>3. CASE x # strip /\ x.columns # <<>>
      <4>1. strip.columns # <<>>
        <5>1. Arranged(x.columns)
          BY <2>4, WholeIs, Tame
        <5> QED BY <2>1, <2>4, <3>3, <5>1, Bare
      <4>2. Resting(strip, never) \/ (strip.keptView = NoView /\ x.keptView = NoView)
        <5>1. CASE shows
          BY <1>4, <2>5, <4>1, <5>1 DEF ViewInv, Resting
        <5>2. CASE ~shows
          BY <1>2, <2>5, <5>2
        <5> QED BY <5>1, <5>2
      <4>3. x = strip \/ (Sighted(x) /\ Returns(x))
        BY <1>1, <2>1, <2>5, <4>2, FoldSees
      <4> QED BY <3>3, <4>3 DEF Views
    <3> QED BY <3>1, <3>2, <3>3
  <2> QED BY <1>2, <2>1, <2>3, <2>4, <2>5, Rests
<1> QED BY <1>3, <1>4

(* Another workspace on screen.                                            *)
LEMMA ShownView ==
    ASSUME Inv, NEW ss, DOMAIN ss = Spaces, NEW ws \in Spaces, NEW x, x = ss[ws], Good(x),
           NEW last, NEW w, ShowsWorkspace(ss, last, ws, w), scene' = scene, drag' = drag,
           x = strips[ws] \/ Fresh(x, never)
    PROVE  ViewInv'
<1>1. CASE Holding
  BY <1>1, HoldingStays
<1>2. CASE ~Holding
  <2>1. PICK settled : settled = IF w = NoWindow \/ w \in floating THEN ss ELSE [ss EXCEPT ![ws] = Select(@, w, never)]
    OBVIOUS
  <2>2. /\ active' = ws /\ strips' = PassedOver(settled, ws)
        /\ shows' => settled[ws] # strips[ws]
    BY <1>2, <2>1 DEF ShowsWorkspace
  <2>3. PICK y : y = Select(x, w, never)
    OBVIOUS
  <2>4. PICK z : z = settled[ws]
    OBVIOUS
  <2>5. DOMAIN settled = Spaces /\ (z = x \/ z = y)
    BY <2>1, <2>3, <2>4
  <2>6. never \in BOOLEAN /\ scene \in Scenarios
    BY StripIs
  <2>7. Good(y) /\ (y = x \/ Fresh(y, never))
    BY <2>3, <2>6, Selects, SelectsFresh DEF Keeps
  <2>8. strips'[active'] = Pass(z, never)
    BY <1>2, <2>2, <2>4, <2>5 DEF PassedOver
  <2>9. Good(z)
    BY <2>5, <2>7
  <2>10. ASSUME never, shows' PROVE Views(z, never)
    <3>1. Fresh(z, never)
      BY <2>2, <2>4, <2>5, <2>7, <2>10
    <3> QED BY <2>6, <2>9, <2>10, <3>1, FreshViews
  <2> QED BY <2>6, <2>8, <2>9, <2>10, Rests
<1> QED BY <1>1, <1>2

LEMMA StripOf ==
    ASSUME Inv, NEW ws \in Spaces
    PROVE  /\ DOMAIN strips = Spaces /\ Good(strips[ws]) /\ Whole(strips[ws]) /\ Arranged(strips[ws].columns)
           /\ Tiled(strips[ws]) = Inhabited(home, floating, ws)
           /\ \A w : OnStrip(strips[ws], w) <=> w \in Tiled(strips[ws])
<1>1. /\ DOMAIN strips = Spaces /\ Good(strips[ws]) /\ Tiled(strips[ws]) = Inhabited(home, floating, ws)
  BY Homes DEF StripsAre, Inhabited
<1>2. Whole(strips[ws]) /\ Arranged(strips[ws].columns)
  BY <1>1, WholeIs, Tame
<1> QED BY <1>1, <1>2, TiledIs

LEMMA SwitchView ==
    ASSUME Inv, ViewInv, NEW ws \in Spaces, SwitchTo(ws)
    PROVE  ViewInv'
<1>1. PICK w : ShowsWorkspace(strips, lastFocus, ws, w)
  BY DEF SwitchTo
<1>2. scene' = scene /\ drag' = drag
  BY DEF SwitchTo, Acts
<1> QED BY <1>1, <1>2, StripOf, ShownView

LEMMA PutFresh ==
    ASSUME NEW s, Good(s), NEW w \in Windows, w \notin Tiled(s), NEW width \in WidthSet,
           NEW nv \in BOOLEAN, NEW t, t = WithWidth(Insert(s, w, nv), w, width)
    PROVE  Good(t) /\ Fresh(t, nv)
<1>1. Good(t)
  BY WidthPut
<1>2. PICK u : u = Insert(s, w, nv)
  OBVIOUS
<1>3. Whole(s)
  BY WholeIs
<1>4. Aimed(u, nv) /\ Whole(u)
  BY <1>2, <1>3, InsertAims, Inserted, WholeIs
<1>5. Aimed(t, nv)
  BY <1>2, <1>4, WidthAims
<1> QED BY <1>1, <1>5, AimedFresh

(* The focused window put on another workspace's strip.                    *)
LEMMA MoveToWorkspaceView ==
    ASSUME Inv, ViewInv, NEW ws \in Spaces, NEW follow \in BOOLEAN, MoveWindowToWorkspace(ws, follow)
    PROVE  ViewInv'
<1>1. PICK w : w = focused
  OBVIOUS
<1>2. w # NoWindow /\ home[w] # ws
  BY <1>1 DEF MoveWindowToWorkspace
<1>3. w \in Windows /\ home[w] \in Spaces
  BY <1>1, <1>2, Homes
<1>4. /\ scene' = scene /\ drag' = drag
      /\ memory' = (IF w \notin floating THEN Remembered(strips[home[w]], w) ELSE memory)
  BY <1>1 DEF MoveWindowToWorkspace, Acts
<1>5. memory'[w] \in WidthSet
  <2>1. memory' \in [Windows -> WidthSet]
    <3>1. Good(strips[home[w]])
      BY <1>3, StripOf
    <3> QED BY <1>4, <3>1, RememberedIs, MemoryIs
  <2> QED BY <1>3, <2>1
<1>6. PICK ss : ss = IF w \notin floating
                     THEN [RemovedEverywhere(w) EXCEPT ![ws] = WithWidth(Insert(@, w, never), w, memory'[w])] ELSE strips
  OBVIOUS
<1>7. PICK last : last = [lastFocus EXCEPT ![home[w]] = IF @ = w THEN NoWindow ELSE @]
  OBVIOUS
<1>8. DOMAIN ss = Spaces
  BY <1>6, StripOf DEF RemovedEverywhere
<1>9. PICK x : x = WithWidth(Insert(strips[ws], w, never), w, memory'[w])
  OBVIOUS
<1>10. w \notin Tiled(strips[ws]) /\ Whole(strips[ws]) /\ Good(strips[ws])
  BY <1>2, StripOf DEF Inhabited
<1>11. Good(x) /\ Fresh(x, never)
  BY <1>3, <1>5, <1>9, <1>10, StripIs, PutFresh
<1>13. w \notin floating => ss[ws] = x
  <2>1. RemoveWindow(strips[ws], w) = strips[ws]
    <3>1. ~OnStrip(strips[ws], w)
      BY <1>10, StripOf
    <3> QED BY <3>1 DEF RemoveWindow
  <2> QED BY <1>6, <1>9, <2>1 DEF RemovedEverywhere
<1>14. Good(ss[ws]) /\ (ss[ws] = strips[ws] \/ Fresh(ss[ws], never))
  BY <1>6, <1>10, <1>11, <1>13
<1>15. CASE follow
  <2>1. ShowsWorkspace(ss, last, ws, w)
    BY <1>1, <1>6, <1>7, <1>15 DEF MoveWindowToWorkspace
  <2> QED BY <1>4, <1>8, <1>14, <2>1, ShownView
<1>16. CASE ~follow
  <2>1. strips' = PassedOver(ss, active) /\ active' = active /\ shows' = (w \notin floating /\ ws = active)
    BY <1>1, <1>6, <1>16 DEF MoveWindowToWorkspace
  <2>2. active \in Spaces
    BY StripIs
  <2>3. Good(ss[active])
    <3>1. CASE w \in floating
      BY <1>6, <2>2, <3>1, StripOf
    <3>2. CASE w \notin floating /\ active = ws
      BY <1>14, <3>2
    <3>3. CASE w \notin floating /\ active # ws
      <4>1. ss[active] = RemoveWindow(strips[active], w)
        BY <1>6, <2>2, <3>3 DEF RemovedEverywhere
      <4> QED BY <2>2, <4>1, StripOf, Removed
    <3> QED BY <3>1, <3>2, <3>3
  <2>4. CASE w \notin floating /\ ws = active
    <3>1. Fresh(ss[active], never)
      BY <1>11, <1>13, <2>4
    <3> QED BY <1>4, <1>8, <2>1, <2>3, <3>1, PassedSees
  <2>5. CASE ~(w \notin floating /\ ws = active)
    <3>1. shows' = FALSE
      BY <2>1, <2>5
    <3> QED BY <1>4, <1>8, <2>1, <2>3, <3>1, PassedRest
  <2> QED BY <2>4, <2>5
<1> QED BY <1>15, <1>16

LEMMA FloatingView == ASSUME Inv, ToggleWindowFloating PROVE ViewInv'
<1>1. PICK w : w = focused
  OBVIOUS
<1>2. w \in Windows /\ home[w] \in Spaces /\ active \in Spaces /\ never \in BOOLEAN
  BY <1>1, Homes DEF ToggleWindowFloating
<1>3. PICK ss : ss = IF w \in floating THEN [strips EXCEPT ![home[w]] = Insert(@, w, never)] ELSE RemovedEverywhere(w)
  OBVIOUS
<1>4. /\ strips' = PassedOver(ss, active) /\ scene' = scene /\ active' = active /\ drag' = drag
      /\ shows' = (w \in floating /\ home[w] = active)
  BY <1>1, <1>3 DEF ToggleWindowFloating, Acts
<1>5. DOMAIN ss = Spaces
  BY <1>2, <1>3, StripOf DEF RemovedEverywhere
<1>6. CASE w \in floating /\ home[w] = active
  <2>1. Whole(strips[active]) /\ w \notin Tiled(strips[active]) /\ ss[active] = Insert(strips[active], w, never)
    BY <1>2, <1>3, <1>6, StripOf DEF Inhabited
  <2>2. Good(ss[active]) /\ Fresh(ss[active], never)
    BY <1>2, <2>1, Inserted, InsertAims, AimedFresh
  <2> QED BY <1>4, <1>5, <2>2, PassedSees
<1>7. CASE ~(w \in floating /\ home[w] = active)
  <2>1. Good(ss[active])
    <3>1. CASE w \in floating
      BY <1>2, <1>3, <1>7, <3>1, StripOf
    <3>2. CASE w \notin floating
      <4>1. ss[active] = RemoveWindow(strips[active], w)
        BY <1>2, <1>3, <3>2 DEF RemovedEverywhere
      <4> QED BY <1>2, <4>1, StripOf, Removed
    <3> QED BY <3>1, <3>2
  <2>2. shows' = FALSE
    BY <1>4, <1>7
  <2> QED BY <1>4, <1>5, <2>1, <2>2, PassedRest
<1> QED BY <1>6, <1>7

LEMMA AddedFresh ==
    ASSUME Inv, NEW w \in Windows, home[w] = Unopened, NEW x, x = Added(w)
    PROVE  Good(x) /\ Fresh(x, never)
<1>1. Good(strip) /\ never \in BOOLEAN /\ w \notin Tiled(strip) /\ memory[w] \in WidthSet
  BY StripIs, AddedIs
<1>2. x = WithWidth(Insert(strip, w, never), w, memory[w])
  BY DEF Added
<1> QED BY <1>1, <1>2, PutFresh

LEMMA OpenedView == ASSUME Inv, NEW w \in Windows, Opened(w) PROVE ViewInv'
<1>1. PICK x : x = Added(w)
  OBVIOUS
<1>2. LaysOutFreed(x) /\ scene' = scene /\ active' = active /\ drag' = drag /\ home[w] = Unopened
  BY <1>1 DEF Opened, Acts
<1> QED BY <1>1, <1>2, AddedFresh, FreedSees

LEMMA DiscoveredView == ASSUME Inv, NEW w \in Windows, Discovered(w) PROVE ViewInv'
<1>1. PICK u : u = Added(w)
  OBVIOUS
<1>2. PICK x : x = IF Located(strip) THEN Select(u, strip.selected, never) ELSE u
  OBVIOUS
<1>3. LaysOutFreed(x) /\ scene' = scene /\ active' = active /\ drag' = drag /\ home[w] = Unopened
  BY <1>1, <1>2 DEF Discovered, Acts
<1>4. Good(u) /\ Fresh(u, never) /\ never \in BOOLEAN
  BY <1>1, <1>3, StripIs, AddedFresh
<1>5. PICK y : y = Select(u, strip.selected, never)
  OBVIOUS
<1>6. Good(y) /\ (y = u \/ Fresh(y, never))
  BY <1>4, <1>5, Selects, SelectsFresh DEF Keeps
<1>7. Good(x) /\ Fresh(x, never)
  BY <1>2, <1>4, <1>5, <1>6
<1> QED BY <1>3, <1>7, FreedSees

LEMMA ClosedView == ASSUME Inv, NEW w \in Windows, Closed(w) PROVE ViewInv'
<1>1. /\ strips' = [[strips EXCEPT ![home[w]] = RemoveWindow(@, w)] EXCEPT ![active] = Pass(@, never)]
      /\ scene' = scene /\ active' = active /\ shows' = FALSE /\ home[w] \in Spaces
  BY Homes DEF Closed, Acts
<1>2. active \in Spaces /\ scene \in Scenarios
  BY StripIs
<1>3. PICK x : x = IF home[w] = active THEN RemoveWindow(strips[active], w) ELSE strips[active]
  OBVIOUS
<1>4. Good(x)
  BY <1>2, <1>3, StripOf, Removed
<1>5. strips'[active'] = Pass(x, never)
  BY <1>1, <1>2, <1>3, StripOf
<1> QED BY <1>1, <1>2, <1>4, <1>5, Rests

LEMMA ReidentifiedView ==
    ASSUME Inv, ViewInv, NEW from \in Windows, NEW to \in Windows, Reidentified(from, to)
    PROVE  ViewInv'
<1>1. /\ strips' = PassedOver([ws \in Spaces |-> ReplaceWindow(RemoveWindow(strips[ws], to), from, to)], active)
      /\ scene' = scene /\ active' = active /\ shows' = shows /\ ~Holding /\ from \in Open /\ home[to] = Unopened
  BY DEF Reidentified, Acts
<1>2. active \in Spaces /\ scene \in Scenarios /\ never \in BOOLEAN /\ Good(strip) /\ strip = strips[active]
  BY StripIs
<1>3. from # to /\ to \notin Tiled(strip) /\ ~OnStrip(strip, to)
  BY <1>1, <1>2, Homes, StripOf DEF Inhabited
<1>4. PICK x : x = ReplaceWindow(strip, from, to)
  OBVIOUS
<1>5. Good(x)
  BY <1>2, <1>3, <1>4, Replaced
<1>6. strips'[active'] = Pass(x, never)
  <2>1. RemoveWindow(strips[active], to) = strips[active]
    BY <1>2, <1>3 DEF RemoveWindow
  <2> QED BY <1>1, <1>2, <1>4, <2>1 DEF PassedOver
<1>7. ASSUME never, shows' PROVE Views(x, never)
  <2>1. CASE strip.columns = <<>>
    <3>1. Arranged(strip.columns) /\ Arranged(x.columns)
      BY <1>2, <1>5, WholeIs, Tame
    <3>2. Tiled(x) = {Newly(from, to, w) : w \in Tiled(strip)}
      BY <1>2, <1>3, <1>4, Replaced
    <3>3. x.columns = <<>>
      BY <2>1, <3>1, <3>2, Bare
    <3> QED BY <3>3 DEF Views
  <2>2. CASE strip.columns # <<>>
    <3>1. Resting(strip, never)
      BY <1>1, <1>7, <2>2 DEF ViewInv, Resting
    <3>2. InView(Pass(x, never)) /\ Returns(Pass(x, never))
      BY <1>2, <1>3, <1>4, <2>2, <3>1, ReplacedRests
    <3> QED BY <3>2 DEF Views
  <2> QED BY <2>1, <2>2
<1> QED BY <1>1, <1>2, <1>5, <1>6, <1>7, Rests

LEMMA MoveFocusView == ASSUME Inv, ViewInv, NEW step, MoveFocusPressed(step) PROVE ViewInv'
<1>1. PICK escapes : escapes = (focused \in floating /\ step \notin {"first", "last"})
  OBVIOUS
<1>2. PICK s : s = IF escapes THEN strip ELSE MoveFocus(strip, step, never)
  OBVIOUS
<1>3. PICK w : Respond(s, w)
  BY <1>1, <1>2 DEF MoveFocusPressed
<1>4. active' = active /\ scene' = scene /\ drag' = drag
  BY DEF MoveFocusPressed, Acts
<1>5. Good(strip) /\ never \in BOOLEAN
  BY StripIs
<1>6. PICK t : t = MoveFocus(strip, step, never)
  OBVIOUS
<1>7. Keeps(strip, strip) /\ Keeps(strip, t) /\ Fresh(t, never)
  BY <1>5, <1>6, Itself, FocusMoves, FocusFresh
<1>8. Keeps(strip, s) /\ (s = strip \/ Fresh(s, never))
  BY <1>2, <1>6, <1>7
<1> QED BY <1>3, <1>4, <1>8, RespondView

LEMMA ToggleFocusFloatingView == ASSUME Inv, ViewInv, ToggleFocusFloating PROVE ViewInv'
<1>1. PICK w : Respond(strip, w)
  BY DEF ToggleFocusFloating
<1>2. active' = active /\ scene' = scene /\ drag' = drag
  BY DEF ToggleFocusFloating, Acts
<1>3. Keeps(strip, strip)
  BY StripIs, Itself
<1> QED BY <1>1, <1>2, <1>3, RespondView

LEMMA FocusCycledView == ASSUME Inv, ViewInv, NEW way, FocusCycled(way) PROVE ViewInv'
<1>1. PICK w : Respond(strip, w)
  BY DEF FocusCycled
<1>2. active' = active /\ scene' = scene /\ drag' = drag
  BY DEF FocusCycled, Acts
<1>3. Keeps(strip, strip)
  BY StripIs, Itself
<1> QED BY <1>1, <1>2, <1>3, RespondView

LEMMA ReportView ==
    ASSUME Inv, ViewInv, NEW w, FocusReported \/ Clicked(w)
    PROVE  ViewInv'
<1>1. PICK v : Focuses(v) /\ scene' = scene /\ active' = active /\ drag' = drag
  BY DEF FocusReported, Clicked, Acts
<1> QED BY <1>1, FocusesView

LEMMA MoveNodeView == ASSUME Inv, ViewInv, NEW step \in Steps, MoveNodePressed(step) PROVE ViewInv'
<1>1. PICK x : x = MoveSelection(strip, step, never)
  OBVIOUS
<1>2. Keeps(strip, x) /\ (x = strip \/ Fresh(x, never))
  BY <1>1, StripIs, SelectionMoves, MoveFresh
<1> QED BY <1>1, <1>2, OnlyStripView DEF MoveNodePressed

LEMMA ExplodeView == ASSUME Inv, ViewInv, ExplodePressed PROVE ViewInv'
<1>1. PICK x : x = Explode(strip, never)
  OBVIOUS
<1>2. Keeps(strip, x) /\ (x = strip \/ Fresh(x, never))
  BY <1>1, StripIs, Exploded, ExplodeFresh
<1> QED BY <1>1, <1>2, OnlyStripView DEF ExplodePressed

LEMMA CenterView == ASSUME Inv, ViewInv, CenterPressed PROVE ViewInv'
<1>1. PICK x : x = Center(strip)
  OBVIOUS
<1>2. Keeps(strip, x) /\ Fresh(x, never)
  BY <1>1, StripIs, Centers, CenterFresh
<1> QED BY <1>1, <1>2, OnlyStripView DEF CenterPressed

LEMMA SnapView == ASSUME Inv, SnapPressed PROVE ViewInv'
<1>1. PICK x : x = Snap(strip)
  OBVIOUS
<1>2. Good(x)
  BY <1>1, StripIs, Snaps DEF Keeps
<1>3. LaysOutFreed(x) /\ scene' = scene /\ active' = active /\ drag' = drag /\ shows' = FALSE
  BY <1>1 DEF SnapPressed, OnStripOnly, Acts
<1> QED BY <1>2, <1>3, FreedRest

LEMMA FullWidthView == ASSUME Inv, ViewInv, FullWidthPressed PROVE ViewInv'
<1>1. PICK x : x = ToggleFullWidth(strip, strip.selected, never)
  OBVIOUS
<1>2. Keeps(strip, x) /\ (x = strip \/ Fresh(x, never))
  BY <1>1, StripIs, FullWidthToggled, FullWidthFresh
<1> QED BY <1>1, <1>2, WidthView DEF FullWidthPressed

LEMMA CycleView == ASSUME Inv, ViewInv, CyclePressed PROVE ViewInv'
<1>1. PICK x : x = CyclePreset(strip, never)
  OBVIOUS
<1>2. Keeps(strip, x) /\ (x = strip \/ Fresh(x, never))
  BY <1>1, StripIs, PresetCycled, PresetFresh
<1> QED BY <1>1, <1>2, WidthView DEF CyclePressed

LEMMA ResizeView == ASSUME Inv, ViewInv, NEW way, NEW amount \in Nat, ResizePressed(way, amount) PROVE ViewInv'
<1>1. PICK by : by = IF way = "grow" THEN amount ELSE -amount
  OBVIOUS
<1>2. by \in Int
  BY <1>1
<1>3. PICK x : x = ResizeBy(strip, by, never)
  OBVIOUS
<1>4. Keeps(strip, x) /\ (x = strip \/ Fresh(x, never) \/ x.columns = <<>>)
  BY <1>2, <1>3, StripIs, Resizes, ResizeFresh
<1>5. WidthPressed(<<way, amount>>, strip.selected, x)
  BY <1>1, <1>3 DEF ResizePressed
<1> QED BY <1>4, <1>5, WidthView

(* Laid out even with a window held, and always freshly.                   *)
LEMMA ZoomedView == ASSUME Inv, NEW w, Zoomed(w) PROVE ViewInv'
<1>1. PICK x : x = ToggleFullWidth(strip, w, never)
  OBVIOUS
<1>2. LaysOut(x) /\ scene' = scene /\ active' = active /\ OnStrip(strip, w)
  BY <1>1 DEF Zoomed, GivesWidth, Acts
<1>3. never \in BOOLEAN /\ scene \in Scenarios /\ active \in Spaces /\ Good(strip) /\ Lengths(strip)
  BY StripIs
<1>4. Good(x) /\ Fresh(x, never)
  BY <1>1, <1>2, <1>3, FullWidthToggled, FullWidthFresh DEF Keeps
<1>5. strips'[active'] = Pass(x, never)
  BY <1>2, <1>3, StripOf DEF LaysOut
<1>6. never => Views(x, never)
  BY <1>3, <1>4, FreshViews
<1> QED BY <1>2, <1>3, <1>4, <1>5, <1>6, Rests

LEMMA AppResizedView ==
    ASSUME Inv, NEW w, NEW width \in Nat, NEW height, AppResized(w, width, height)
    PROVE  ViewInv'
<1>1. PICK from : from = [x |-> 0, width |-> 0]
  OBVIOUS
<1>2. from.x \in Int /\ from.width \in Int
  BY <1>1
<1>3. PICK x : x = ResizeWindow(strip, w, "none", from, width, height, never)
  OBVIOUS
<1>4. LaysOutFreed(x) /\ scene' = scene /\ active' = active /\ drag' = drag /\ shows' = FALSE
  BY <1>1, <1>3 DEF AppResized, Resized, Acts
<1>5. Good(x)
  <2>1. width \in Int /\ Good(strip) /\ never \in BOOLEAN
    BY StripIs
  <2> QED BY <1>2, <1>3, <2>1, FrameReported DEF Keeps
<1> QED BY <1>4, <1>5, FreedRest

LEMMA DragReportedView == ASSUME NEW width, DragReported(width) PROVE ViewInv'
  BY HoldingStays DEF DragReported, Resized

LEMMA DragBeginsView == ASSUME ViewInv, NEW edge, DragBegins(edge) PROVE ViewInv'
<1>1. ~Holding /\ strips' = strips /\ active' = active /\ scene' = scene /\ shows' = FALSE
  BY DEF DragBegins, Acts
<1>2. strip' = strip /\ never' = never
  BY <1>1 DEF strip, never
<1> QED BY <1>1, <1>2 DEF ViewInv

LEMMA DragEndsView == ASSUME Inv, NEW target, DragEnds(target) PROVE ViewInv'
<1>1. PICK s : s = IF target = NoWindow THEN strip ELSE SwapWindows(strip, drag.window, target)
  OBVIOUS
<1>2. LaysOut(s) /\ active' = active /\ scene' = scene /\ shows' = FALSE /\ target # drag.window
  BY <1>1 DEF DragEnds
<1>3. Good(strip) /\ Whole(strip)
  BY StripIs
<1>4. Keeps(strip, strip) /\ Changes(strip, SwapWindows(strip, drag.window, target))
  BY <1>2, <1>3, Itself, Swapped
<1>5. Good(s)
  BY <1>1, <1>4, ChangesKeep DEF Keeps
<1> QED BY <1>2, <1>5, LaidRest

LEMMA StepView == ASSUME Inv, ViewInv, Next PROVE ViewInv'
<1>1. CASE FocusReported
  BY <1>1, ReportView
<1>2. CASE \E step \in Steps : MoveFocusPressed(step) \/ MoveNodePressed(step)
  BY <1>2, MoveFocusView, MoveNodeView
<1>3. CASE \E side \in {"left", "right"} : FoldPressed(side) \/ DragBegins(side)
  BY <1>3, FoldView, DragBeginsView
<1>4. CASE DragBegins("still")
  BY <1>4, DragBeginsView
<1>5. CASE ExplodePressed \/ CenterPressed \/ SnapPressed
  BY <1>5, ExplodeView, CenterView, SnapView
<1>6. CASE FullWidthPressed \/ CyclePressed
  BY <1>6, FullWidthView, CycleView
<1>7. CASE \E amount \in Named("grow") : ResizePressed("grow", amount)
  BY <1>7, AmountIs, ResizeView
<1>8. CASE \E amount \in Named("shrink") : ResizePressed("shrink", amount)
  BY <1>8, AmountIs, ResizeView
<1>9. CASE ToggleFocusFloating \/ ToggleWindowFloating \/ \E way \in {"forward", "backward"} : FocusCycled(way)
  BY <1>9, ToggleFocusFloatingView, FloatingView, FocusCycledView
<1>10. CASE \E ws \in Spaces : SwitchTo(ws) \/ MoveWindowToWorkspace(ws, TRUE) \/ MoveWindowToWorkspace(ws, FALSE)
  BY <1>10, SwitchView, MoveToWorkspaceView
<1>11. CASE \E w \in Windows : Clicked(w) \/ Zoomed(w) \/ Opened(w) \/ Discovered(w) \/ Closed(w)
  BY <1>11, ReportView, ZoomedView, OpenedView, DiscoveredView, ClosedView
<1>12. CASE \E from, to \in Windows : Reidentified(from, to)
  BY <1>12, ReidentifiedView
<1>13. CASE \E w \in Windows, width \in Named("appResize"), height \in BOOLEAN : AppResized(w, width, height)
  BY <1>13, AmountIs, AppResizedView
<1>14. CASE \E width \in Named("dragTo") : DragReported(width)
  BY <1>14, DragReportedView
<1>15. CASE \E w \in Windows \cup {NoWindow} : DragEnds(w)
  BY <1>15, DragEndsView
<1> QED BY <1>1, <1>2, <1>3, <1>4, <1>5, <1>6, <1>7, <1>8, <1>9, <1>10, <1>11, <1>12, <1>13, <1>14, <1>15 DEF Next

LEMMA StutterView == ASSUME ViewInv, UNCHANGED vars PROVE ViewInv'
  BY SameView DEF vars

(* A strip as it starts shows its first column from its left edge.         *)
LEMMA StartedViews ==
    ASSUME NEW columns \in Seq(Seq(Windows) \ {<<>>}),
           \A c, d \in DOMAIN columns : \A i \in DOMAIN columns[c], j \in DOMAIN columns[d] :
               columns[c][i] = columns[d][j] => c = d /\ i = j,
           NEW s, s = Started(columns, FirstOf(columns)), NEW nv \in BOOLEAN, nv
    PROVE  Views(s, nv)
<1>1. Good(s)
  BY StartedGood
<1>2. CASE s.columns = <<>>
  BY <1>2 DEF Views
<1>3. CASE s.columns # <<>>
  <2>1. s \in StripSet /\ Arranged(s.columns) /\ Located(s)
    BY <1>1, <1>3, LedLocated
  <2>2. PICK first : first = FirstOf(columns)
    OBVIOUS
  <2>3. PICK new : new = [c \in DOMAIN columns |-> [windows |-> columns[c], width |-> Unset]]
    OBVIOUS
  <2>4. /\ s.columns = new /\ s.selected = first /\ s.centre = NoWindow /\ s.keptView = NoView
        /\ s.offset = 0 /\ s.intent = Keep
    BY <2>2, <2>3 DEF Started, NewStrip
  <2>5. SelectedColumn(s) = 1
    <3>1. 1 \in DOMAIN s.columns
      BY <1>3, <2>1 DEF Arranged
    <3>2. 1 \in DOMAIN columns /\ columns # <<>>
      BY <2>3, <2>4, <3>1
    <3>3. columns[1] \in Seq(Windows) \ {<<>>} /\ 1 \in DOMAIN columns[1]
      <4>1. columns[1] \in Seq(Windows) \ {<<>>}
        BY <3>2
      <4> QED BY <4>1
    <3>4. s.columns[1].windows = columns[1] /\ first = columns[1][1]
      BY <2>2, <2>3, <2>4, <3>2 DEF FirstOf
    <3>5. In(s.columns[1], first)
      BY <3>3, <3>4 DEF In
    <3>6. OnStrip(s, first)
      BY <2>1, <2>4 DEF Located
    <3>7. 1 = ColumnOf(s, first)
      BY <2>1, <3>1, <3>5, <3>6, WhereIs
    <3> QED BY <2>1, <2>4, <3>7 DEF SelectedColumn
  <2>6. PICK g : g = Geometry(s, nv)
    OBVIOUS
  <2>7. Framed(s, g)
    BY <1>3, <2>1, <2>6, Laid DEF Framed
  <2>8. g.start = 0
    <3>1. g.start = Start(s, SelectedColumn(s))
      BY <1>3, <2>6 DEF Geometry, Anchored, GeometryOf
    <3>2. Start(s, 1) = Ends(s)[0]
      BY DEF Start
    <3> QED BY <2>1, <2>5, <3>1, <3>2, EndsAdd
  <2>9. PICK t : t = Pass(s, nv)
    OBVIOUS
  <2>10. /\ t.offset = ResolveScroll(s, g, Spent(s, g)) /\ t.measured = Record(s, g, t.offset)
         /\ Kin(s, t) /\ t.keptView = s.keptView
    <3>1. Good(s) /\ nv \in BOOLEAN /\ t = Pass(s, nv)
      BY <1>1, <2>9
    <3> QED BY ONLY <2>6, <3>1, PassIs
  <2>11. Keep.kind = "keep" /\ Keep.pin = "none" /\ Keep.reveal = "none"
    BY Typed
  <2>12. Spent(s, g) = 0 /\ RevealAfter(s) = "none" /\ RevealOffset(g, "none", 0) = 0
    BY <2>4, <2>11 DEF Spent, RevealAfter, RevealOffset
  <2>13. t.offset = Clamp(0, 0, g.last + 0)
    BY <2>1, <2>4, <2>10, <2>12 DEF ResolveScroll, Between
  <2>14. /\ g.delta = g.anchor - (Viewport - g.width) \div 2 /\ g.width \in 1..Viewport
         /\ g.anchor = 0 /\ 0 <= g.last /\ g.last \in Int /\ g.delta \in Int
    BY <2>4, <2>7 DEF Framed, Geometries
  <2>15. g.last \in Int /\ 0 <= g.last
    BY <2>14
  <2>16. t.offset = 0
    BY ONLY <2>13, <2>15 DEF Clamp
  <2>17. t.measured.rel = 0 /\ t.measured.slot = g.width /\ t.measured.delta = g.delta
    BY <2>8, <2>10, <2>16 DEF Record
  <2>18. InView(t)
    <3>1. PICK mid : mid = (Viewport - g.width) \div 2
      OBVIOUS
    <3>2. g.width \in Int /\ Viewport \in Int /\ g.width <= Viewport
      <4>1. g.width \in 1..Viewport
        BY <2>14
      <4> QED BY ONLY <4>1, ViewportIs
    <3>3. mid \in Int /\ g.delta = 0 - mid
      BY <2>14, <3>1, <3>2, MidIs
    <3>4. ShownX(t) = 0 + g.delta + mid
      BY <2>17, <3>1 DEF ShownX
    <3>5. ShownX(t) = 0
      BY ONLY <3>3, <3>4
    <3> QED BY ONLY <2>17, <3>2, <3>5 DEF InView
  <2>19. Returns(t)
    BY <2>4, <2>10, NothingReturns
  <2> QED BY <2>9, <2>18, <2>19 DEF Views
<1> QED BY <1>2, <1>3

LEMMA InitialView == Init => ViewInv
<1> SUFFICES ASSUME Init PROVE ViewInv
  OBVIOUS
<1>1. PICK sc \in Scenarios :
        LET ws    == CHOOSE ws \in Spaces : TRUE
            first == IF sc.columns = <<>> THEN NoWindow ELSE sc.columns[1][1]
            start == [NewStrip EXCEPT
                        !.columns = [c \in DOMAIN sc.columns |-> [windows |-> sc.columns[c], width |-> Unset]],
                        !.selected = first]
        IN  /\ scene = sc /\ active = ws
            /\ strips = [v \in Spaces |-> IF v = ws THEN Pass(start, sc.never) ELSE NewStrip]
  BY ONLY Init DEF Init
<1>2. PICK s : s = Started(sc.columns, FirstOf(sc.columns))
  OBVIOUS
<1>3. scene = sc /\ strip = Pass(s, sc.never) /\ never = sc.never
  <2> DEFINE w0 == CHOOSE w \in Spaces : TRUE
  <2>1. w0 \in Spaces
    BY WorkspacesAssumption
  <2>2. scene = sc /\ active = w0
    BY ONLY <1>1
  <2>3. strips = [v \in Spaces |-> IF v = w0 THEN Pass(s, sc.never) ELSE NewStrip]
    BY ONLY <1>1, <1>2 DEF Started, FirstOf
  <2> HIDE DEF w0
  <2>4. strips[active] = Pass(s, sc.never)
    BY ONLY <2>1, <2>2, <2>3
  <2> QED BY ONLY <2>2, <2>4 DEF strip, never
<1>4. /\ sc.columns \in Seq(Seq(Windows) \ {<<>>})
      /\ \A c, d \in DOMAIN sc.columns : \A i \in DOMAIN sc.columns[c], j \in DOMAIN sc.columns[d] :
             sc.columns[c][i] = sc.columns[d][j] => c = d /\ i = j
      /\ sc.never \in BOOLEAN
  BY WorkspacesAssumption
<1>5. PICK nv : nv = sc.never
  OBVIOUS
<1>6. nv \in BOOLEAN /\ strip = Pass(s, nv) /\ never = nv
  BY <1>3, <1>4, <1>5
<1>7. Good(s) /\ (nv => Views(s, nv))
  BY <1>2, <1>4, <1>6, StartedGood, StartedViews
<1>8. Pass(strip, nv) = strip
  BY <1>6, <1>7, PassTwice
<1>9. nv /\ strip.columns # <<>> => InView(strip) /\ Returns(strip)
  BY <1>6, <1>7, ViewsPassed
<1> QED BY <1>6, <1>8, <1>9 DEF ViewInv

(* Whenever no window is held, the strip on screen is at rest, another     *)
(* pass changing nothing; and once a press, a click or a report selected a *)
(* window of it, or one joined it, opened, found, sent or taken down from  *)
(* the floating layer, the selected column is wholly on screen, whatever   *)
(* came between.                                                           *)
THEOREM FocusStaysInView == Spec => []FocusInView
<1>1. Inv /\ ViewInv /\ [Next]_vars => Inv' /\ ViewInv'
  BY StepHolds, StutterHolds, StepView, StutterView
<1>2. Inv /\ ViewInv => FocusInView
  BY DEF ViewInv, FocusInView
<1> QED BY Initially, InitialView, <1>1, <1>2, PTL DEF Spec

=============================================================================
