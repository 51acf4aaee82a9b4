SPECIFICATION Spec
CONSTANTS
  WLength = {10}
  Normal = {"n1"}
  Sys = {"sleep"}
  Media = {"mute"}
INVARIANTS UsbInv AnswersOwnRequest FollowsWhenTaken
