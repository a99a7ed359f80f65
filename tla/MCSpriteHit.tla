----------------------------- MODULE MCSpriteHit -----------------------------
(***************************************************************************)
(* The sprite hit on a small screen: sprites of two by two pixels.         *)
(***************************************************************************)
EXTENDS SpriteHit

MCPictures ==
    {(0..(Lines - 1)) \X Columns, {<<2, 1>>}, {<<3, 2>>, <<2, 3>>}, {<<1, 0>>, <<4, 1>>}}

MCSprite(y, x, upper, lower, flip, below) ==
    [y |-> y, x |-> x, flip |-> flip, below |-> below,
     tile |-> [k \in 0..1 |-> IF k = 0 THEN upper ELSE lower]]

\* the last two are flipped, and followed by an opaque tile
MCSprites ==
    {MCSprite(0, 0, {0, 1}, {0, 1}, FALSE, {}), MCSprite(1, 1, {1}, {0}, FALSE, {}),
     MCSprite(1, 2, {}, {1}, FALSE, {}), MCSprite(2, 1, {0}, {0}, FALSE, {}),
     MCSprite(2, 3, {0, 1}, {1}, FALSE, {}),
     MCSprite(0, 1, {1}, {0}, TRUE, {}), MCSprite(0, 1, {}, {1}, FALSE, {0})}

\* where sprite 0 and the background are both opaque, and its pixels
Shared ==
    {p \in picture :
        /\ p[1] - spr.y - 1 \in 0..(Height - 1)
        /\ p[2] - spr.x \in spr.tile[p[1] - spr.y - 1]
        /\ p[2] \in LeftEdge..(LastX - 1)}

Overlap ==
    {Pixel(p[1], p[2]) : p \in Shared}

\* What the search takes for granted: the sprite is not flipped, and what
\* follows its tile in the cache is transparent.
Searchable == ~spr.flip /\ spr.below = {}

\* A poll sees the hit from the clock of the first pixel sprite and background
\* share, never before it and never later than the clock after it, whatever
\* was polled, rendered in which pieces, and with the picture drawn or not.
HitOnTime ==
    (steady /\ Searchable /\ now > VblEnd) =>
        /\ seen = "hit" =>
            on /\ \E p \in Overlap : HitTime(p) <= Clock(now)
        /\ seen = "no hit" =>
            (on => \A p \in Overlap : Clock(now) <= HitTime(p))
=============================================================================
