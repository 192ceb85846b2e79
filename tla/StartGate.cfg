\* Two playback threads and a CDX query; two levels below the cap.
SPECIFICATION GateSpec
CONSTANTS
    p1 = p1
    p2 = p2
    cdx = cdx
    Playback <- MCPlayback
    Cdx <- MCCdx
    Interval = 1
    CdxInterval = 2
    Cooldown = 2
    MaxCooldown = 3
    RetryAfters = {0, 4}
    MaxAttempts = 2
    MaxLevel = 2
SYMMETRY MCSymmetry
PROPERTIES StartsPaced AdviceKept
