------------------------------ MODULE Navigation ------------------------------
(***************************************************************************)
(* The two navigations that follow what is on screen.                      *)
(***************************************************************************)
EXTENDS Integers, FiniteSetsExt

(********************************************************************************)
(* The console's list of sections (components/console-nav.tsx): it brings the   *)
(* current one into view when the path changes, by its own scroll position, and *)
(* fades the ends behind which sections are out of sight.  Lengths are small    *)
(* numbers; RevealMargin stands for REVEAL_MARGIN.                              *)
(********************************************************************************)

CONSTANTS
    Items,           \* sections of the longest list
    ItemHeight, RevealMargin,
    Heights          \* what the shell may give the list

ASSUME NavAssumption ==
    /\ {Items, ItemHeight, RevealMargin} \subseteq Nat \ {0} /\ Heights \subseteq Nat
    /\ \A h \in Heights : h >= ItemHeight + RevealMargin

VARIABLES
    itemsListed,          \* how many sections the list has
    path,            \* the item whose page is open, 0 for a page the list has not
    height,          \* clientHeight
    top,             \* scrollTop
    ends,            \* above and below, as the fades show them
    toMeasure,       \* a scroll or resize the listeners have not been told of
    moved            \* history: the reader scrolled, or the list or window changed, since

navVars == <<itemsListed, path, height, top, ends, toMeasure, moved>>

Larger(a, b) == IF a > b THEN a ELSE b
Lesser(a, b) == IF a < b THEN a ELSE b
MaxTop(n, h) == Larger(n * ItemHeight, h) - h
Clamped(y, n, h) == Lesser(y, MaxTop(n, h))

Bottom(k) == k * ItemHeight
Start(k) == Bottom(k) - ItemHeight

(* The effect on the path: down past the lower edge, or up past the upper one. *)
Revealed(k, y, h) ==
    IF Bottom(k) > y + h THEN Bottom(k) - h + RevealMargin
    ELSE IF Start(k) < y THEN Larger(Start(k), RevealMargin) - RevealMargin
    ELSE y

Ends(n, y, h) == [above |-> y > 0, below |-> y + h < n * ItemHeight]

NavInit ==
    /\ itemsListed \in 1..Items /\ height \in Heights /\ path \in 0..itemsListed
    /\ top = IF path = 0 THEN 0 ELSE Clamped(Revealed(path, 0, height), itemsListed, height)
    /\ ends = Ends(itemsListed, 0, height)       \* measured by the first effect
    /\ toMeasure = (top # 0) /\ moved = FALSE

(* A path that no listed section has leaves the list where it is. *)
Navigates(k) ==
    /\ k # path /\ k <= itemsListed /\ path' = k
    /\ top' = IF k = 0 THEN top ELSE Clamped(Revealed(k, top, height), itemsListed, height)
    /\ toMeasure' = (toMeasure \/ top' # top) /\ moved' = FALSE
    /\ UNCHANGED <<itemsListed, height, ends>>

ListScrolled(y) ==
    /\ y <= MaxTop(itemsListed, height) /\ y # top /\ top' = y /\ toMeasure' = TRUE /\ moved' = TRUE
    /\ UNCHANGED <<itemsListed, path, height, ends>>

ListResized(h) ==                    \* the browser keeps the position in range
    /\ h # height /\ height' = h /\ top' = Clamped(top, itemsListed, h)
    /\ toMeasure' = TRUE /\ moved' = TRUE /\ UNCHANGED <<itemsListed, path, ends>>

(* size changed: the effect measures anew and the path's does not run. *)
ListChanges(n) ==
    /\ n # itemsListed /\ itemsListed' = n /\ top' = Clamped(top, n, height)
    /\ path' = IF path > n THEN 0 ELSE path
    /\ ends' = Ends(n, top', height) /\ toMeasure' = FALSE /\ moved' = TRUE /\ UNCHANGED height

Measures ==
    /\ toMeasure /\ toMeasure' = FALSE /\ ends' = Ends(itemsListed, top, height)
    /\ UNCHANGED <<itemsListed, path, height, top, moved>>

NavNext ==
    \/ \E k \in 0..Items : Navigates(k)
    \/ \E y \in 0..(Items * ItemHeight) : ListScrolled(y)
    \/ \E h \in Heights : ListResized(h)
    \/ \E n \in 1..Items : ListChanges(n)
    \/ Measures

NavSpec == NavInit /\ [][NavNext]_navVars

-----------------------------------------------------------------------------
NavTypeOK ==
    /\ itemsListed \in 1..Items /\ path \in 0..Items /\ height \in Heights
    /\ top \in 0..MaxTop(itemsListed, height) /\ ends \in [above : BOOLEAN, below : BOOLEAN]

(* The section whose page is open is wholly in sight after a navigation, from wherever   *)
(* the list had been scrolled to, until the reader or the window moves it; and the fades *)
(* say what is out of sight once the last scroll or resize has been measured.            *)
CurrentIsInView ==
    /\ path # 0 /\ ~moved => top <= Start(path) /\ Bottom(path) <= top + height
    /\ ~toMeasure => ends = Ends(itemsListed, top, height)

-----------------------------------------------------------------------------
(******************************************************************************)
(* The header of the landing page (components/site/site-header.tsx): which    *)
(* section its navigation underlines, from the crossings an observer reports  *)
(* when it comes to it, and the mobile menu that locks the page's scroll.     *)
(* Sections lie one below the other, each SectionHeight long, after a first   *)
(* stretch that no link names; the band they are looked for in is BandHeight. *)
(******************************************************************************)

CONSTANTS Sections, SectionHeight, BandHeight

ASSUME HeaderAssumption == {Sections, SectionHeight, BandHeight} \subseteq Nat \ {0}

Section == 1..Sections
Screen == 0..((Sections + 1) * SectionHeight)

VARIABLES
    scrolledTo,      \* the top of the band, on the page
    crossedTops,         \* visible: each section's top when its last crossing in was reported
    underlined,      \* active, 0 for none
    menuOpen, wide,
    overflow         \* of the body: "auto" or "hidden"

headerVars == <<scrolledTo, crossedTops, underlined, menuOpen, wide, overflow>>

TopOf(k, y) == k * SectionHeight - y
InBand(k, y) == TopOf(k, y) < BandHeight /\ TopOf(k, y) + SectionHeight > 0
Left == -SectionHeight               \* not in the map: nothing in the band has this top

HeaderInit ==
    /\ scrolledTo = 0 /\ crossedTops = [k \in Section |-> Left] /\ underlined = 0
    /\ menuOpen = FALSE /\ wide \in BOOLEAN /\ overflow = "auto"

PageScrolled(y) ==
    /\ overflow = "auto" /\ y # scrolledTo /\ scrolledTo' = y
    /\ UNCHANGED <<crossedTops, underlined, menuOpen, wide, overflow>>

(* The observer: only crossings are entries, with the section's place at that time. *)
Entered(m) == {k \in Section : m[k] # Left}
Topmost(m) == CHOOSE k \in Entered(m) : \A j \in Entered(m) : m[k] < m[j] \/ (m[k] = m[j] /\ k <= j)

Crossing(k) == InBand(k, scrolledTo) # (crossedTops[k] # Left)
CrossingsReported ==
    /\ \E k \in Section : Crossing(k)
    /\ crossedTops' = [k \in Section |->
                     IF ~Crossing(k) THEN crossedTops[k]
                     ELSE IF InBand(k, scrolledTo) THEN TopOf(k, scrolledTo) ELSE Left]
    /\ underlined' = IF Entered(crossedTops') = {} THEN 0 ELSE Topmost(crossedTops')
    /\ UNCHANGED <<scrolledTo, menuOpen, wide, overflow>>

(* Only a narrow window has the button and its menu. *)
MenuToggled ==
    /\ ~wide /\ menuOpen' = ~menuOpen
    /\ overflow' = IF menuOpen THEN "auto" ELSE "hidden"
    /\ UNCHANGED <<scrolledTo, crossedTops, underlined, wide>>

MenuClosed ==                        \* Escape, or a link of the menu
    /\ menuOpen /\ menuOpen' = FALSE /\ overflow' = "auto"
    /\ UNCHANGED <<scrolledTo, crossedTops, underlined, wide>>

WindowResized ==
    /\ wide' = ~wide /\ UNCHANGED <<scrolledTo, crossedTops, underlined, menuOpen, overflow>>

HeaderNext ==
    \/ CrossingsReported \/ MenuToggled \/ MenuClosed \/ WindowResized
    \/ \E y \in Screen : PageScrolled(y)

HeaderSpec == HeaderInit /\ [][HeaderNext]_headerVars

-----------------------------------------------------------------------------
HeaderTypeOK ==
    /\ scrolledTo \in Screen /\ crossedTops \in [Section -> Int] /\ underlined \in 0..Sections
    /\ {menuOpen, wide} \subseteq BOOLEAN /\ overflow \in {"auto", "hidden"}

(* Once the observer has reported, the section underlined is one that stands in the  *)
(* band, and none is exactly when none does, however far the page jumped; and a page *)
(* without its menu open scrolls.                                                    *)
UnderlineIsInBand ==
    /\ (\A k \in Section : ~Crossing(k)) =>
         IF underlined = 0 THEN \A k \in Section : ~InBand(k, scrolledTo)
         ELSE InBand(underlined, scrolledTo)
    /\ ~menuOpen => overflow = "auto"

(* "Ties resolve to the entry nearest the top."  (Not so: a place is that of the *)
(* crossing, and the section below may have crossed at a smaller one.)           *)
UnderlineIsTopmost ==
    (\A k \in Section : ~Crossing(k)) /\ underlined # 0 =>
        \A k \in Section : InBand(k, scrolledTo) => underlined <= k

(* A page whose menu cannot be seen scrolls.  (Not so once the window is widened.) *)
LockedByAMenu == overflow = "hidden" => menuOpen /\ ~wide
=============================================================================
