SPECIFICATION Spec
CONSTANTS
    Absent = Absent
    Unpaired = Unpaired
    Present <- MCPresent
INVARIANTS
    NewerIsHalfACycle
    DutyFollowsStick
    SilenceIsEnough
    CurrentIsExact
    NoStrangerIsLoaded
    JoystickIsRead
PROPERTIES
    BootFindsJoystick
